---- MODULE Spec2Model ----
(***************************************************************************)
(* Model of the credence_bond contract (contracts/credence_bond/src).      *)
(*                                                                         *)
(* The contract's instance storage is one variable per storage key.  An    *)
(* entry point is a pure operator from the storage (a record of all keys)  *)
(* and the ledger timestamp to an outcome: the panic message, or the new   *)
(* storage and the return value.  A panic aborts the invocation and the    *)
(* ledger discards its writes, so an action commits the new storage only   *)
(* when the outcome carries no error.  The three entry points that call a  *)
(* registered callback contract are split at that external call: the       *)
(* invocation is a frame on `stack` while its callback runs, and the       *)
(* callback may invoke the contract again before it returns.               *)
(***************************************************************************)
EXTENDS Integers, Sequences, FiniteSets, TLC

(* ---------------------------- bounds ---------------------------------- *)

\* Largest amount passed to an entry point, and cap on the bonded amount.
MaxAmount == 2
\* Ledger timestamps range over 0..MaxTime.
MaxTime == 2
\* Deepest nesting of contract invocations (1 = no re-entrant call).
MaxDepth == 2
\* Proposal ids range over 0..MaxProposals-1.
MaxProposals == 1
MaxAttestations == 2
\* Cap on the tokens held by the contract where amounts are in the
\* hundreds (fees and penalties in basis points).
MaxFunds == 1300
\* Cap on the part of the bonded amount that the contract does not hold.
MaxUnbacked == 1

(* ------------------------- program constants -------------------------- *)

BPS_DENOMINATOR == 10000
MAX_FEE_BPS == 10000
DEFAULT_QUORUM_BPS == 5100
DEFAULT_MIN_GOVERNORS == 1
DEFAULT_WEIGHT_MULTIPLIER_BPS == 100
DEFAULT_MAX_WEIGHT == 100000
MAX_ATTESTATION_WEIGHT == 1000000
DEFAULT_ATTESTATION_WEIGHT == 1

(* ----------------------------- values --------------------------------- *)

\* Option<T>: None is the absent storage key, Some(x) the stored value.
None == << >>
Some(x) == << x >>
Get(o) == o[1]
UnwrapOr(o, d) == IF o = None THEN d ELSE o[1]

\* The empty map (a family of storage keys none of which is set).
EmptyMap == [x \in {} |-> 0]
Has(m, k) == k \in DOMAIN m
Put(m, k, v) == [x \in (DOMAIN m) \cup {k} |-> IF x = k THEN v ELSE m[x]]

Max(a, b) == IF a >= b THEN a ELSE b

\* Rust's integer division truncates toward zero.
TruncDiv(a, b) ==
    IF a >= 0 THEN a \div b ELSE -((-a) \div b)

\* Addresses that appear as callers and arguments.
ADMIN == "admin"
ALICE == "alice"
MALLORY == "mallory"
TOKEN == "token"
TREASURY == "treasury"
G1 == "g1"
G2 == "g2"
G3 == "g3"
DELEGATE == "d"
V1 == "v1"
V2 == "v2"

Open == "Open"
Executed == "Executed"
Rejected == "Rejected"

(* ----------------------------- state ---------------------------------- *)

VARIABLES
    admin,              \* DataKey::Admin
    token,              \* DataKey::Token
    bond,               \* DataKey::Bond: Option<IdentityBond>
    fees,               \* Symbol "fees": the fee pool (Option<i128>)
    fee_config,         \* DataKey::FeeTreasury / FeeBps
    early_exit,         \* Symbols "treasury" / "early_exit_penalty_bps"
    lock,               \* Symbol "lock"
    callback,           \* Symbol "callback"
    governors,          \* DataKey::GovernanceGovernors
    quorum_bps,         \* DataKey::GovernanceQuorumBps
    min_governors,      \* DataKey::GovernanceMinGovernors
    next_proposal_id,   \* DataKey::GovernanceNextProposalId
    proposals,          \* DataKey::GovernanceProposal(id)
    votes,              \* DataKey::GovernanceVote(id, voter)
    delegates,          \* DataKey::GovernanceDelegate(governor)
    attesters,          \* DataKey::Attester(address): the addresses whose key is set
    nonces,             \* DataKey::Nonce(identity)
    attestations,       \* DataKey::Attestation(id)
    attestation_counter,\* DataKey::AttestationCounter
    dedup,              \* AttestationDedupKey(verifier, identity, data) -> id
    subject_attestations, \* DataKey::SubjectAttestations(subject)
    subject_count,      \* DataKey::SubjectAttestationCount(subject)
    attester_stake,     \* DataKey::AttesterStake(attester)
    weight_cfg,         \* Symbol "weight_cfg": (multiplier_bps, max_weight)
    token_balance,      \* the contract's balance at the token contract
    now,                \* e.ledger().timestamp()
    stack,              \* invocations whose callback is running, outermost first
    last                \* outcome of the invocation that returned last

storageVars ==
    << admin, token, bond, fees, fee_config, early_exit, lock, callback,
       governors, quorum_bps, min_governors, next_proposal_id, proposals,
       votes, delegates, attesters, nonces, attestations, attestation_counter,
       dedup, subject_attestations, subject_count, attester_stake, weight_cfg,
       token_balance >>

vars == << storageVars, now, stack, last >>

\* The instance storage (and the token ledger entry) as one record.
Storage ==
    [ admin |-> admin, token |-> token, bond |-> bond, fees |-> fees,
      fee_config |-> fee_config, early_exit |-> early_exit, lock |-> lock,
      callback |-> callback, governors |-> governors,
      quorum_bps |-> quorum_bps, min_governors |-> min_governors,
      next_proposal_id |-> next_proposal_id, proposals |-> proposals,
      votes |-> votes, delegates |-> delegates,
      attesters |-> attesters, nonces |-> nonces,
      attestations |-> attestations,
      attestation_counter |-> attestation_counter, dedup |-> dedup,
      subject_attestations |-> subject_attestations,
      subject_count |-> subject_count, attester_stake |-> attester_stake,
      weight_cfg |-> weight_cfg,
      token_balance |-> token_balance ]

\* The ledger writes storage s.
Commit(s) ==
    /\ admin' = s.admin
    /\ token' = s.token
    /\ bond' = s.bond
    /\ fees' = s.fees
    /\ fee_config' = s.fee_config
    /\ early_exit' = s.early_exit
    /\ lock' = s.lock
    /\ callback' = s.callback
    /\ governors' = s.governors
    /\ quorum_bps' = s.quorum_bps
    /\ min_governors' = s.min_governors
    /\ next_proposal_id' = s.next_proposal_id
    /\ proposals' = s.proposals
    /\ votes' = s.votes
    /\ delegates' = s.delegates
    /\ attesters' = s.attesters
    /\ nonces' = s.nonces
    /\ attestations' = s.attestations
    /\ attestation_counter' = s.attestation_counter
    /\ dedup' = s.dedup
    /\ subject_attestations' = s.subject_attestations
    /\ subject_count' = s.subject_count
    /\ attester_stake' = s.attester_stake
    /\ weight_cfg' = s.weight_cfg
    /\ token_balance' = s.token_balance

\* Outcome of an invocation: it returned ret and left storage st ...
Ok(st, ret) == [err |-> "", st |-> st, ret |-> ret]
\* ... or panicked with msg, and the writes made since s are discarded.
Panic(msg, s) == [err |-> msg, st |-> s, ret |-> 0]

\* A returned invocation: the entry point, the proposal it named (0 when it
\* names none), the panic message ("" when it returned normally) and the
\* number of invocations it was nested in.
Call(op, pid, r, depth) == [op |-> op, pid |-> pid, err |-> r.err, depth |-> depth]

NoCall == [op |-> "none", pid |-> 0, err |-> "", depth |-> 0]

Init ==
    /\ admin = None /\ token = None /\ bond = None /\ fees = None
    /\ fee_config = None /\ early_exit = None /\ lock = None
    /\ callback = None /\ governors = None /\ quorum_bps = None
    /\ min_governors = None /\ next_proposal_id = None
    /\ proposals = EmptyMap /\ votes = EmptyMap /\ delegates = EmptyMap
    /\ attesters = {} /\ nonces = EmptyMap /\ attestations = EmptyMap
    /\ attestation_counter = None /\ dedup = EmptyMap
    /\ subject_attestations = EmptyMap /\ subject_count = EmptyMap
    /\ attester_stake = EmptyMap /\ weight_cfg = None
    /\ token_balance = 0
    /\ now = 0 /\ stack = << >> /\ last = NoCall

(* ------------------------ external token ------------------------------ *)

\* TokenClient::transfer_from(contract, identity, contract, amount): the
\* token rejects a negative amount; the identity is taken to hold and to
\* have approved the amount.
TokenPullOk(s, amount) == amount >= 0
\* TokenClient::transfer(contract, to, amount): the token rejects a negative
\* amount and an amount above the contract's balance.
TokenPushOk(s, amount) == amount >= 0 /\ amount <= s.token_balance

(* ----------------------- fees, penalty, rolling ----------------------- *)

\* fees::get_config: (treasury, fee_bps), fee_bps 0 when not set.
FeeBpsOf(s) == IF s.fee_config = None THEN 0 ELSE Get(s.fee_config).fee_bps

\* A fee that is computed but not taken off the bonded amount.
fee_not_deducted(s, amount) ==
    IF FeeBpsOf(s) = 0 \/ amount <= 0
    THEN << 0, amount >>
    ELSE << TruncDiv(amount * FeeBpsOf(s), BPS_DENOMINATOR), amount >>

\* fees::calculate_fee: <<fee, net>>.
calculate_fee(s, amount) ==
    IF FeeBpsOf(s) = 0 \/ amount <= 0
    THEN << 0, amount >>
    ELSE LET fee == TruncDiv(amount * FeeBpsOf(s), BPS_DENOMINATOR)
         IN  << fee, amount - fee >>

\* fees::record_fee: add the fee to the pool.
record_fee(s, fee) ==
    IF fee <= 0 THEN s
    ELSE [s EXCEPT !.fees = Some(UnwrapOr(s.fees, 0) + fee)]

\* early_exit_penalty::calculate_penalty.
calculate_penalty(amount, remaining_time, total_duration, penalty_bps) ==
    IF total_duration = 0 \/ penalty_bps = 0
    THEN 0
    ELSE LET base == TruncDiv(amount * penalty_bps, BPS_DENOMINATOR)
         IN  TruncDiv(base * remaining_time, total_duration)

\* rolling_bond::is_period_ended.
is_period_ended(t, bond_start, bond_duration) ==
    t >= bond_start + bond_duration

\* A notice check that is satisfied by the request alone.
notice_not_awaited(t, withdrawal_requested_at, notice_period_duration) ==
    withdrawal_requested_at /= 0

\* rolling_bond::can_withdraw_after_notice.
can_withdraw_after_notice(t, withdrawal_requested_at, notice_period_duration) ==
    IF withdrawal_requested_at = 0
    THEN FALSE
    ELSE t >= withdrawal_requested_at + notice_period_duration

\* A renewal that keeps the pending request.
renewal_keeping_request(b, new_start) == [b EXCEPT !.bond_start = new_start]

\* rolling_bond::apply_renewal.
apply_renewal(b, new_start) ==
    [b EXCEPT !.bond_start = new_start, !.withdrawal_requested_at = 0]

(* --------------------------- administration --------------------------- *)

\* CredenceBond::require_admin: the panic message, "" when admin is the
\* stored admin.
require_admin(s, a) ==
    IF s.admin = None THEN "not initialized"
    ELSE IF Get(s.admin) /= a THEN "not admin"
    ELSE ""

\* CredenceBond::initialize.
initialize(s, a) == Ok([s EXCEPT !.admin = Some(a)], 0)

\* CredenceBond::set_token.
set_token(s, a, tok) ==
    IF s.admin = None THEN Panic("not initialized", s)
    ELSE IF a /= Get(s.admin) THEN Panic("not admin", s)
    ELSE Ok([s EXCEPT !.token = Some(tok)], 0)

\* CredenceBond::set_early_exit_config with early_exit_penalty::set_config.
set_early_exit_config(s, a, treasury, penalty_bps) ==
    IF require_admin(s, a) /= "" THEN Panic(require_admin(s, a), s)
    ELSE IF penalty_bps > BPS_DENOMINATOR
    THEN Panic("penalty_bps must be <= 10000 (100%)", s)
    ELSE Ok([s EXCEPT !.early_exit =
                Some([treasury |-> treasury, penalty_bps |-> penalty_bps])], 0)

\* CredenceBond::set_fee_config with fees::set_config.
set_fee_config(s, a, treasury, fee_bps) ==
    IF require_admin(s, a) /= "" THEN Panic(require_admin(s, a), s)
    ELSE IF fee_bps > MAX_FEE_BPS THEN Panic("fee_bps must be <= 10000", s)
    ELSE Ok([s EXCEPT !.fee_config =
                Some([treasury |-> treasury, fee_bps |-> fee_bps])], 0)

\* CredenceBond::deposit_fees.
deposit_fees(s, amount) ==
    Ok([s EXCEPT !.fees = Some(UnwrapOr(s.fees, 0) + amount)], 0)

\* CredenceBond::set_callback.
set_callback(s, cb) == Ok([s EXCEPT !.callback = Some(cb)], 0)

\* CredenceBond::is_locked.
is_locked(s) == UnwrapOr(s.lock, FALSE)

(* --------------------------- bond ledger ------------------------------ *)

\* A create_bond that carries the slashed amount and the pending withdrawal
\* request of the bond it replaces over to the new one.
create_bond_onto_previous(s, t, identity, amount, duration, is_rolling, notice_period_duration) ==
    IF amount < 0 THEN Panic("amount must be non-negative", s)
    ELSE IF s.token = None THEN Panic("token not set", s)
    ELSE IF ~TokenPullOk(s, amount) THEN Panic("HostError: token", s)
    ELSE
      LET fn == calculate_fee(s, amount)
          s1 == [s EXCEPT !.token_balance = @ + amount]
          s2 == IF fn[1] > 0 /\ s1.fee_config /= None
                THEN record_fee(s1, fn[1]) ELSE s1
          b == [ identity |-> identity,
                 bonded_amount |-> fn[2],
                 bond_start |-> t,
                 bond_duration |-> duration,
                 slashed_amount |-> IF s.bond = None THEN 0
                                    ELSE Get(s.bond).slashed_amount,
                 active |-> TRUE,
                 is_rolling |-> is_rolling,
                 withdrawal_requested_at |-> IF s.bond = None THEN 0
                                             ELSE Get(s.bond).withdrawal_requested_at,
                 notice_period_duration |-> notice_period_duration ]
      IN  Ok([s2 EXCEPT !.bond = Some(b)], 0)

\* CredenceBond::create_bond / create_bond_with_rolling.
create_bond(s, t, identity, amount, duration, is_rolling, notice_period_duration) ==
    IF amount < 0 THEN Panic("amount must be non-negative", s)
    ELSE IF s.token = None THEN Panic("token not set", s)
    ELSE IF ~TokenPullOk(s, amount) THEN Panic("HostError: token", s)
    ELSE
      LET fn == calculate_fee(s, amount)
          fee == fn[1]
          net_amount == fn[2]
          s1 == [s EXCEPT !.token_balance = @ + amount]
          s2 == IF fee > 0 /\ s1.fee_config /= None
                THEN record_fee(s1, fee) ELSE s1
          b == [ identity |-> identity,
                 bonded_amount |-> net_amount,
                 bond_start |-> t,
                 bond_duration |-> duration,
                 slashed_amount |-> 0,
                 active |-> TRUE,
                 is_rolling |-> is_rolling,
                 withdrawal_requested_at |-> 0,
                 notice_period_duration |-> notice_period_duration ]
      IN  Ok([s2 EXCEPT !.bond = Some(b)], 0)

\* A balance that takes no account of what was slashed.
available_ignoring_slash(b) == b.bonded_amount

\* The available balance computed by withdraw_bond and withdraw_early.
available_of(b) == b.bonded_amount - b.slashed_amount

\* A withdrawal that does not wait for the lock-up of a non-rolling bond.
withdraw_any_time(s, t, amount) ==
    IF s.bond = None THEN Panic("no bond", s)
    ELSE
      LET b == Get(s.bond) IN
      IF b.is_rolling /\ b.withdrawal_requested_at = 0
      THEN Panic("cooldown window not elapsed; request_withdrawal first", s)
      ELSE IF amount > b.bonded_amount - b.slashed_amount
      THEN Panic("insufficient balance for withdrawal", s)
      ELSE IF s.token = None \/ ~TokenPushOk(s, amount) THEN Panic("HostError: token", s)
      ELSE Ok([s EXCEPT !.token_balance = @ - amount,
                        !.bond = Some([b EXCEPT !.bonded_amount = @ - amount])], 0)

\* CredenceBond::withdraw / withdraw_bond.
withdraw_bond(s, t, amount) ==
    IF s.bond = None THEN Panic("no bond", s)
    ELSE
      LET b == Get(s.bond)
          end == b.bond_start + b.bond_duration
      IN
      IF b.is_rolling /\ b.withdrawal_requested_at = 0
      THEN Panic("cooldown window not elapsed; request_withdrawal first", s)
      ELSE IF b.is_rolling /\
              ~can_withdraw_after_notice(t, b.withdrawal_requested_at,
                                         b.notice_period_duration)
      THEN Panic("cooldown window not elapsed; request_withdrawal first", s)
      ELSE IF ~b.is_rolling /\ t < end
      THEN Panic("lock-up period not elapsed; use withdraw_early", s)
      ELSE IF amount > available_of(b)
      THEN Panic("insufficient balance for withdrawal", s)
      ELSE IF s.token = None THEN Panic("token not set", s)
      ELSE IF ~TokenPushOk(s, amount) THEN Panic("HostError: token", s)
      ELSE
        LET bonded == b.bonded_amount - amount
            slashed == IF b.slashed_amount > bonded
                       THEN bonded ELSE b.slashed_amount
        IN  Ok([s EXCEPT !.token_balance = @ - amount,
                         !.bond = Some([b EXCEPT !.bonded_amount = bonded,
                                                 !.slashed_amount = slashed])],
               0)

\* CredenceBond::withdraw_early; returns the two transfers it made.
withdraw_early(s, t, amount) ==
    IF s.bond = None THEN Panic("no bond", s)
    ELSE
      LET b == Get(s.bond)
          end == b.bond_start + b.bond_duration
      IN
      IF t >= end THEN Panic("use withdraw for post lock-up", s)
      ELSE IF amount > available_of(b)
      THEN Panic("insufficient balance for withdrawal", s)
      ELSE IF s.early_exit = None THEN Panic("early exit config not set", s)
      ELSE
        LET remaining == end - t
            penalty == calculate_penalty(amount, remaining, b.bond_duration,
                                         Get(s.early_exit).penalty_bps)
            net_amount == amount - penalty
            bonded == b.bonded_amount - amount
        IN
        IF s.token = None THEN Panic("token not set", s)
        ELSE IF ~TokenPushOk(s, net_amount) THEN Panic("HostError: token", s)
        ELSE IF penalty > 0 /\
                ~TokenPushOk([s EXCEPT !.token_balance = @ - net_amount], penalty)
        THEN Panic("HostError: token", s)
        ELSE IF b.slashed_amount > bonded
        THEN Panic("slashed amount exceeds bonded amount", s)
        ELSE Ok([s EXCEPT
                   !.token_balance = @ - net_amount - (IF penalty > 0 THEN penalty ELSE 0),
                   !.bond = Some([b EXCEPT !.bonded_amount = bonded])],
                [to_identity |-> net_amount, to_treasury |-> penalty])

\* A request that replaces a pending one.
request_again(s, t) ==
    IF s.bond = None THEN Panic("no bond", s)
    ELSE IF ~Get(s.bond).is_rolling THEN Panic("not a rolling bond", s)
    ELSE Ok([s EXCEPT !.bond =
                Some([Get(s.bond) EXCEPT !.withdrawal_requested_at = t])], 0)

\* CredenceBond::request_withdrawal.
request_withdrawal(s, t) ==
    IF s.bond = None THEN Panic("no bond", s)
    ELSE IF ~Get(s.bond).is_rolling THEN Panic("not a rolling bond", s)
    ELSE IF Get(s.bond).withdrawal_requested_at /= 0
    THEN Panic("withdrawal already requested", s)
    ELSE Ok([s EXCEPT !.bond =
                Some([Get(s.bond) EXCEPT !.withdrawal_requested_at = t])], 0)

\* CredenceBond::renew_if_rolling; returns 1 when it renewed (and published
\* bond_renewed), 0 when it returned the bond as it was.
renew_if_rolling(s, t) ==
    IF s.bond = None THEN Panic("no bond", s)
    ELSE
      LET b == Get(s.bond) IN
      IF ~b.is_rolling THEN Ok(s, 0)
      ELSE IF ~is_period_ended(t, b.bond_start, b.bond_duration) THEN Ok(s, 0)
      ELSE Ok([s EXCEPT !.bond = Some(apply_renewal(b, t))], 1)

\* A top-up that takes the tokens and leaves the bonded amount as it is.
top_up_not_credited(s, amount) ==
    IF s.bond = None THEN Panic("no bond", s)
    ELSE IF s.token = None THEN Panic("token not set", s)
    ELSE IF ~TokenPullOk(s, amount) THEN Panic("HostError: token", s)
    ELSE Ok([s EXCEPT !.token_balance = @ + amount], 0)

\* CredenceBond::top_up.
top_up(s, amount) ==
    IF s.bond = None THEN Panic("no bond", s)
    ELSE IF s.token = None THEN Panic("token not set", s)
    ELSE IF ~TokenPullOk(s, amount) THEN Panic("HostError: token", s)
    ELSE Ok([s EXCEPT !.token_balance = @ + amount,
                      !.bond = Some([Get(s.bond) EXCEPT !.bonded_amount = @ + amount])],
            0)

\* CredenceBond::extend_duration.
extend_duration(s, additional_duration) ==
    IF s.bond = None THEN Panic("no bond", s)
    ELSE Ok([s EXCEPT !.bond =
                Some([Get(s.bond) EXCEPT !.bond_duration = @ + additional_duration])],
            0)

(* ---------------------------- slashing -------------------------------- *)

\* A slash that adds the amount without capping.
slash_uncapped(s, a, amount) ==
    IF require_admin(s, a) /= "" THEN Panic(require_admin(s, a), s)
    ELSE IF s.bond = None THEN Panic("no bond", s)
    ELSE IF ~Get(s.bond).active THEN Panic("bond not active", s)
    ELSE Ok([s EXCEPT !.bond =
                Some([Get(s.bond) EXCEPT !.slashed_amount = @ + amount])], 0)

\* slashing::slash_bond, the primitive behind CredenceBond::slash and the
\* governance path: admin only, bond active, the new slashed amount capped
\* at the bonded amount.
slash(s, a, amount) ==
    IF require_admin(s, a) /= "" THEN Panic(require_admin(s, a), s)
    ELSE IF s.bond = None THEN Panic("no bond", s)
    ELSE IF ~Get(s.bond).active THEN Panic("bond not active", s)
    ELSE
      LET b == Get(s.bond)
          new_slashed == b.slashed_amount + amount
          capped == IF new_slashed > b.bonded_amount
                    THEN b.bonded_amount ELSE new_slashed
      IN  Ok([s EXCEPT !.bond = Some([b EXCEPT !.slashed_amount = capped])], 0)

(* ---------------------------- governance ------------------------------ *)

\* governance_approval::get_governors.
get_governors(s) == UnwrapOr(s.governors, << >>)

\* A membership test that every address passes.
anyone_governs(govs, addr) == TRUE

\* governance_approval::is_governor.
is_governor(govs, addr) == \E i \in 1 .. Len(govs) : govs[i] = addr

\* CredenceBond::initialize_governance with
\* governance_approval::initialize_governance.
initialize_governance(s, a, govs, q_bps, min_gov) ==
    IF require_admin(s, a) /= "" THEN Panic(require_admin(s, a), s)
    ELSE IF q_bps > BPS_DENOMINATOR THEN Panic("quorum_bps must be <= 10000", s)
    ELSE Ok([s EXCEPT !.governors = Some(govs),
                      !.quorum_bps = Some(q_bps),
                      !.min_governors = Some(min_gov),
                      !.next_proposal_id = Some(0)], 0)

\* CredenceBond::propose_slash with governance_approval::propose_slash;
\* returns the proposal id.
propose_slash(s, t, proposer, amount) ==
    IF s.admin = None THEN Panic("not initialized", s)
    ELSE IF proposer /= Get(s.admin) /\ ~is_governor(get_governors(s), proposer)
    THEN Panic("not admin or governor", s)
    ELSE IF amount <= 0 THEN Panic("slash amount must be positive", s)
    ELSE
      LET id == UnwrapOr(s.next_proposal_id, 0)
          proposal == [ id |-> id, amount |-> amount, proposed_by |-> proposer,
                        proposed_at |-> t, status |-> Open ]
      IN  Ok([s EXCEPT !.next_proposal_id = Some(id + 1),
                       !.proposals = Put(@, id, proposal)], id)

\* CredenceBond::governance_vote with governance_approval::vote.
vote(s, voter, proposal_id, approve) ==
    IF ~Has(s.proposals, proposal_id) THEN Panic("proposal not found", s)
    ELSE IF s.proposals[proposal_id].status /= Open
    THEN Panic("proposal not open for voting", s)
    ELSE IF s.governors = None THEN Panic("governance not initialized", s)
    ELSE
      LET govs == Get(s.governors)
          is_gov == is_governor(govs, voter)
          is_delegate_of_some ==
              \E i \in 1 .. Len(govs) :
                  Has(s.delegates, govs[i]) /\ s.delegates[govs[i]] = voter
      IN
      IF ~(is_gov \/ is_delegate_of_some) THEN Panic("not a governor or delegate", s)
      ELSE IF Has(s.votes, << proposal_id, voter >>) THEN Panic("already voted", s)
      ELSE Ok([s EXCEPT !.votes = Put(@, << proposal_id, voter >>, approve)], 0)

\* CredenceBond::governance_delegate with governance_approval::delegate.
delegate(s, governor, to) ==
    IF s.governors = None THEN Panic("governance not initialized", s)
    ELSE IF ~is_governor(Get(s.governors), governor) THEN Panic("not a governor", s)
    ELSE Ok([s EXCEPT !.delegates = Put(@, governor, to)], 0)

\* A resolution that follows a delegation for two hops.
voter_two_hops(s, governor) ==
    LET first == IF Has(s.delegates, governor) THEN s.delegates[governor] ELSE governor
    IN  IF Has(s.delegates, first) THEN s.delegates[first] ELSE first

\* A resolution that ignores delegation: every governor votes for itself.
voter_without_delegation(s, governor) == governor

\* governance_approval::effective_voter.
effective_voter(s, governor) ==
    IF Has(s.delegates, governor) THEN s.delegates[governor] ELSE governor

\* governance_approval::count_votes: (approve, reject, voted), one count per
\* entry of the governor list whose effective voter has a stored vote.
count_votes(s, proposal_id) ==
    LET govs == get_governors(s)
        counted == { i \in 1 .. Len(govs) :
                        Has(s.votes, << proposal_id, effective_voter(s, govs[i]) >>) }
        approving == { i \in counted :
                        s.votes[<< proposal_id, effective_voter(s, govs[i]) >>] }
    IN  [ approve |-> Cardinality(approving),
          reject |-> Cardinality(counted \ approving),
          voted |-> Cardinality(counted) ]

\* An approval rule with the majority test alone, no quorum.
approved_without_quorum(s, proposal_id) ==
    LET c == count_votes(s, proposal_id)
    IN  Len(get_governors(s)) > 0 /\ c.voted > 0 /\ c.approve > c.voted \div 2

\* An approval rule whose majority test is turned around: quorum, and at
\* most half of the counted votes approving.
approved_by_minority(s, proposal_id) ==
    LET total == Len(get_governors(s))
        q_bps == UnwrapOr(s.quorum_bps, DEFAULT_QUORUM_BPS)
        min_gov == UnwrapOr(s.min_governors, DEFAULT_MIN_GOVERNORS)
        c == count_votes(s, proposal_id)
    IN  /\ total > 0
        /\ c.voted >= Max((total * q_bps) \div BPS_DENOMINATOR, min_gov)
        /\ c.approve <= c.voted \div 2

\* governance_approval::is_approved.
is_approved(s, proposal_id) ==
    LET total == Len(get_governors(s))
        q_bps == UnwrapOr(s.quorum_bps, DEFAULT_QUORUM_BPS)
        min_gov == UnwrapOr(s.min_governors, DEFAULT_MIN_GOVERNORS)
        c == count_votes(s, proposal_id)
        quorum_ok == c.voted >= Max((total * q_bps) \div BPS_DENOMINATOR, min_gov)
        majority_approve == c.voted > 0 /\ c.approve > c.voted \div 2
    IN  IF total = 0 THEN FALSE ELSE quorum_ok /\ majority_approve

\* governance_approval::execute_slash_if_approved; ret is 1 when executed,
\* 0 when the proposal was marked Rejected.
execute_slash_if_approved(s, proposal_id) ==
    IF ~Has(s.proposals, proposal_id) THEN Panic("proposal not found", s)
    ELSE IF s.proposals[proposal_id].status /= Open
    THEN Panic("proposal already closed", s)
    ELSE IF ~is_approved(s, proposal_id)
    THEN Ok([s EXCEPT !.proposals[proposal_id].status = Rejected], 0)
    ELSE Ok([s EXCEPT !.proposals[proposal_id].status = Executed], 1)

\* An execution that does not compare the caller with the proposer.
execute_by_anyone(s, proposer, proposal_id) ==
    IF ~Has(s.proposals, proposal_id) THEN Panic("proposal not found", s)
    ELSE
      LET executed == execute_slash_if_approved(s, proposal_id) IN
      IF executed.err /= "" THEN Panic(executed.err, s)
      ELSE IF executed.ret = 0 THEN Panic("proposal not approved", s)
      ELSE
        LET slashed == slash(executed.st, proposer, s.proposals[proposal_id].amount)
        IN  IF slashed.err /= "" THEN Panic(slashed.err, s) ELSE slashed

\* CredenceBond::execute_slash_with_governance.
execute_slash_with_governance(s, proposer, proposal_id) ==
    IF ~Has(s.proposals, proposal_id) THEN Panic("proposal not found", s)
    ELSE IF s.proposals[proposal_id].proposed_by /= proposer
    THEN Panic("only proposer can execute", s)
    ELSE
      LET executed == execute_slash_if_approved(s, proposal_id) IN
      IF executed.err /= "" THEN Panic(executed.err, s)
      ELSE IF executed.ret = 0 THEN Panic("proposal not approved", s)
      ELSE
        LET slashed == slash(executed.st, proposer, s.proposals[proposal_id].amount)
        IN  IF slashed.err /= "" THEN Panic(slashed.err, s) ELSE slashed

(* --------------------------- attestations ----------------------------- *)

\* Stakes and the u64 products of compute_weight exceed the range of the
\* model checker's integers: such a number is a triple << a, b, c >>
\* standing for (a * LimbBase + b) * LimbBase + c with 0 <= b, c < LimbBase.
\* A negative number has a negative a.
LimbBase == 65536
WideOf(n) == << (n \div LimbBase) \div LimbBase, (n \div LimbBase) % LimbBase, n % LimbBase >>
WideMul(w, k) ==
    LET c == w[3] * k
        b == w[2] * k + c \div LimbBase
    IN  << w[1] * k + b \div LimbBase, b % LimbBase, c % LimbBase >>
WideDiv(w, d) ==
    LET t2 == (w[1] % d) * LimbBase + w[2]
        t3 == (t2 % d) * LimbBase + w[3]
    IN  << w[1] \div d, t2 \div d, t3 \div d >>
\* `as u32`: the low 32 bits.
WideAsU32(w) == << 0, w[2], w[3] >>
\* core::cmp::min of a wide number and a number within range.
WideMin(w, n) ==
    IF /\ w[1] = 0
       /\ \/ w[2] < n \div LimbBase
          \/ w[2] = n \div LimbBase /\ w[3] <= n % LimbBase
    THEN w[2] * LimbBase + w[3]
    ELSE n

(* ------------------------ amounts at full width ----------------------- *)

\* An i128 amount too large for the model checker's integers is the
\* sequence of its eight 16-bit limbs, least significant first; only
\* non-negative amounts are written this way.
I128_MAX == << 65535, 65535, 65535, 65535, 65535, 65535, 65535, 32767 >>

\* The limbs of a + b followed by the carry out of the last limb.
RECURSIVE LimbSum(_, _, _, _)
LimbSum(a, b, i, carry) ==
    IF i > Len(a) THEN << carry >>
    ELSE LET d == a[i] + b[i] + carry
         IN  << d % LimbBase >> \o LimbSum(a, b, i + 1, d \div LimbBase)

\* a < b on limb sequences.
LimbLess(a, b) ==
    \E i \in 1 .. Len(a) :
        /\ a[i] < b[i]
        /\ \A j \in (i + 1) .. Len(a) : a[j] = b[j]

\* An addition that wraps around at the width instead of failing.
wrapping_add(a, b) ==
    LET sum == LimbSum(a, b, 1, 0)
    IN  Some([i \in 1 .. Len(a) |->
                 IF i = Len(a) THEN sum[i] % (LimbBase \div 2) ELSE sum[i]])

\* i128::checked_add on non-negative amounts: None on overflow.
checked_add(a, b) ==
    LET sum == LimbSum(a, b, 1, 0)
    IN  IF sum[Len(a) + 1] > 0 \/ sum[Len(a)] >= LimbBase \div 2 THEN None
        ELSE Some(SubSeq(sum, 1, Len(a)))

\* tiered_bond: the tier thresholds.
TIER_BRONZE_MAX == << 51712, 15258, 0, 0, 0, 0, 0, 0 >>
TIER_SILVER_MAX == << 61952, 10757, 1, 0, 0, 0, 0, 0 >>
TIER_GOLD_MAX == << 51200, 43031, 4, 0, 0, 0, 0, 0 >>

\* tiered_bond::get_tier_for_amount.
get_tier_for_amount(amount) ==
    IF LimbLess(amount, TIER_BRONZE_MAX) THEN "Bronze"
    ELSE IF LimbLess(amount, TIER_SILVER_MAX) THEN "Silver"
    ELSE IF LimbLess(amount, TIER_GOLD_MAX) THEN "Gold"
    ELSE "Platinum"

\* tiered_bond::emit_tier_change_if_needed: the events it publishes.
emit_tier_change_if_needed(identity, old_tier, new_tier) ==
    IF old_tier /= new_tier THEN << << "tier_changed", identity, new_tier >> >>
    ELSE << >>

\* CredenceBond::top_up on amounts at full width, with its overflow check
\* and its tier event; returns the events published.  The token takes the
\* amount from the identity, which is taken to hold and to have approved
\* it, and refuses a transfer that would overflow the contract's balance.
top_up_checked(s, amount) ==
    IF s.bond = None THEN Panic("no bond", s)
    ELSE
      LET b == Get(s.bond)
          new_bonded == checked_add(b.bonded_amount, amount)
      IN
      IF new_bonded = None THEN Panic("top-up caused overflow", s)
      ELSE IF s.token = None THEN Panic("token not set", s)
      ELSE IF checked_add(s.token_balance, amount) = None THEN Panic("HostError: token", s)
      ELSE
        LET old_tier == get_tier_for_amount(b.bonded_amount)
            new_tier == get_tier_for_amount(Get(new_bonded))
        IN  Ok([s EXCEPT !.token_balance = Get(checked_add(@, amount)),
                         !.bond = Some([b EXCEPT !.bonded_amount = Get(new_bonded)])],
               emit_tier_change_if_needed(b.identity, old_tier, new_tier))

\* nonce::get_nonce.
get_nonce(s, identity) ==
    IF Has(s.nonces, identity) THEN s.nonces[identity] ELSE 0

\* A nonce check that accepts every nonce.
consume_any_nonce(s, identity, expected_nonce) ==
    Ok([s EXCEPT !.nonces = Put(@, identity, get_nonce(s, identity) + 1)], 0)

\* nonce::consume_nonce.
consume_nonce(s, identity, expected_nonce) ==
    LET current == get_nonce(s, identity) IN
    IF current /= expected_nonce
    THEN Panic("invalid nonce: replay or out-of-order", s)
    ELSE Ok([s EXCEPT !.nonces = Put(@, identity, current + 1)], 0)

\* CredenceBond::register_attester.
register_attester(s, attester) ==
    IF s.admin = None THEN Panic("not initialized", s)
    ELSE Ok([s EXCEPT !.attesters = @ \cup {attester}], 0)

\* CredenceBond::unregister_attester.
unregister_attester(s, attester) ==
    IF s.admin = None THEN Panic("not initialized", s)
    ELSE Ok([s EXCEPT !.attesters = @ \ {attester}], 0)

\* A registry that knows every address.
everyone_attests(s, attester) == TRUE

\* CredenceBond::is_attester.
is_attester(s, attester) == attester \in s.attesters

\* weighted_attestation::get_weight_config: << multiplier_bps, max_weight >>.
get_weight_config(s) ==
    UnwrapOr(s.weight_cfg, << DEFAULT_WEIGHT_MULTIPLIER_BPS, DEFAULT_MAX_WEIGHT >>)

\* CredenceBond::set_weight_config with weighted_attestation::set_weight_config.
set_weight_config(s, a, multiplier_bps, max_weight) ==
    IF require_admin(s, a) /= "" THEN Panic(require_admin(s, a), s)
    ELSE LET cap == IF max_weight <= MAX_ATTESTATION_WEIGHT
                    THEN max_weight ELSE MAX_ATTESTATION_WEIGHT
         IN  Ok([s EXCEPT !.weight_cfg = Some(<< multiplier_bps, cap >>)], 0)

\* weighted_attestation::get_attester_stake (a wide number).
get_attester_stake(s, attester) ==
    IF Has(s.attester_stake, attester) THEN s.attester_stake[attester] ELSE WideOf(0)

\* CredenceBond::set_attester_stake with
\* weighted_attestation::set_attester_stake; amount is a wide number.
set_attester_stake(s, a, attester, amount) ==
    IF require_admin(s, a) /= "" THEN Panic(require_admin(s, a), s)
    ELSE IF amount[1] < 0 THEN Panic("attester stake cannot be negative", s)
    ELSE Ok([s EXCEPT !.attester_stake = Put(@, attester, amount)], 0)

\* weighted_attestation::compute_weight.  The stakes of the model are below
\* 2^48 and the multipliers below 2^15, so `as u64` keeps the stake and the
\* u64 product does not overflow.
compute_weight(s, attester) ==
    LET stake == get_attester_stake(s, attester)
        multiplier_bps == get_weight_config(s)[1]
        max_weight == get_weight_config(s)[2]
    IN  IF stake[1] < 0 \/ stake = WideOf(0)
        THEN DEFAULT_ATTESTATION_WEIGHT
        ELSE LET w == WideAsU32(WideDiv(WideMul(stake, multiplier_bps), BPS_DENOMINATOR))
                 capped == WideMin(w, max_weight)
             IN  Max(IF capped <= MAX_ATTESTATION_WEIGHT
                     THEN capped ELSE MAX_ATTESTATION_WEIGHT,
                     DEFAULT_ATTESTATION_WEIGHT)

\* Attestation::validate_weight: the panic message, "" when valid.
validate_weight(weight) ==
    IF weight = 0 THEN "attestation weight must be positive"
    ELSE IF weight > MAX_ATTESTATION_WEIGHT THEN "attestation weight exceeds maximum"
    ELSE ""

\* A duplicate test that finds nothing.
never_duplicate(s, key) == FALSE

\* The duplicate test of add_attestation on an AttestationDedupKey.
is_duplicate(s, key) == Has(s.dedup, key)

\* A removal that removes nothing.
keep_dedup(d, key) == d

\* The removal of the dedup key in revoke_attestation.
release_dedup(d, key) == [k \in (DOMAIN d) \ {key} |-> d[k]]

\* CredenceBond::add_attestation; returns the new attestation's id.
add_attestation(s, t, attester, subject, attestation_data, nonce) ==
    IF ~is_attester(s, attester) THEN Panic("unauthorized attester", s)
    ELSE
      LET consumed == consume_nonce(s, attester, nonce)
          dedup_key == << attester, subject, attestation_data >>
      IN
      IF consumed.err /= "" THEN Panic(consumed.err, s)
      ELSE IF is_duplicate(consumed.st, dedup_key) THEN Panic("duplicate attestation", s)
      ELSE
        LET id == UnwrapOr(s.attestation_counter, 0)
            weight == compute_weight(s, attester)
            attestation == [ id |-> id, verifier |-> attester, identity |-> subject,
                             timestamp |-> t, weight |-> weight,
                             attestation_data |-> attestation_data,
                             revoked |-> FALSE ]
            list == IF Has(s.subject_attestations, subject)
                    THEN s.subject_attestations[subject] ELSE << >>
            count == IF Has(s.subject_count, subject) THEN s.subject_count[subject] ELSE 0
        IN
        IF validate_weight(weight) /= "" THEN Panic(validate_weight(weight), s)
        ELSE Ok([consumed.st EXCEPT
                   !.attestation_counter = Some(id + 1),
                   !.attestations = Put(@, id, attestation),
                   !.dedup = Put(@, dedup_key, id),
                   !.subject_attestations = Put(@, subject, Append(list, id)),
                   !.subject_count = Put(@, subject, count + 1)], id)

\* A revocation open to every caller.
revoke_by_anyone(s, attester, attestation_id, nonce) ==
    LET consumed == consume_nonce(s, attester, nonce) IN
    IF consumed.err /= "" THEN Panic(consumed.err, s)
    ELSE IF ~Has(s.attestations, attestation_id) THEN Panic("attestation not found", s)
    ELSE IF s.attestations[attestation_id].revoked
    THEN Panic("attestation already revoked", s)
    ELSE Ok([consumed.st EXCEPT !.attestations[attestation_id].revoked = TRUE], 0)

\* CredenceBond::revoke_attestation.
revoke_attestation(s, attester, attestation_id, nonce) ==
    LET consumed == consume_nonce(s, attester, nonce) IN
    IF consumed.err /= "" THEN Panic(consumed.err, s)
    ELSE IF ~Has(s.attestations, attestation_id) THEN Panic("attestation not found", s)
    ELSE
      LET attestation == s.attestations[attestation_id]
          dedup_key == << attestation.verifier, attestation.identity,
                          attestation.attestation_data >>
          count == IF Has(s.subject_count, attestation.identity)
                   THEN s.subject_count[attestation.identity] ELSE 0
      IN
      IF attestation.verifier /= attester
      THEN Panic("only original attester can revoke", s)
      ELSE IF attestation.revoked THEN Panic("attestation already revoked", s)
      ELSE Ok([consumed.st EXCEPT
                 !.attestations[attestation_id].revoked = TRUE,
                 !.dedup = release_dedup(@, dedup_key),
                 !.subject_count = Put(@, attestation.identity, Max(count - 1, 0))], 0)

\* CredenceBond::get_subject_attestations.
get_subject_attestations(s, subject) ==
    IF Has(s.subject_attestations, subject) THEN s.subject_attestations[subject] ELSE << >>

\* A count that never goes down: the length of the list.
count_all_added(s, subject) == Len(get_subject_attestations(s, subject))

\* CredenceBond::get_subject_attestation_count.
get_subject_attestation_count(s, subject) ==
    IF Has(s.subject_count, subject) THEN s.subject_count[subject] ELSE 0

(* ----------------------- reentrancy guard ----------------------------- *)

\* CredenceBond::acquire_lock.
acquire_lock(s) == [s EXCEPT !.lock = Some(TRUE)]

\* A release that leaves the flag as it finds it.
lock_left_as_is(s) == s

\* CredenceBond::release_lock.
release_lock(s) == [s EXCEPT !.lock = Some(FALSE)]

\* A full withdrawal that empties the bond and leaves it active.
withdraw_bond_full_staying_active(s, identity) ==
    LET s1 == acquire_lock(s) IN
    IF s1.bond = None THEN Panic("no bond", s)
    ELSE IF Get(s1.bond).identity /= identity THEN Panic("not bond owner", s)
    ELSE IF ~Get(s1.bond).active THEN Panic("bond not active", s)
    ELSE
      LET b == Get(s1.bond)
      IN  Ok([s1 EXCEPT !.bond = Some([b EXCEPT !.bonded_amount = 0])],
             b.bonded_amount - b.slashed_amount)

\* CredenceBond::withdraw_bond_full up to its external call: the storage the
\* callback sees, and the amount the invocation will return.
withdraw_bond_full_enter(s, identity) ==
    LET s1 == acquire_lock(s) IN
    IF s1.bond = None THEN Panic("no bond", s)
    ELSE IF Get(s1.bond).identity /= identity THEN Panic("not bond owner", s)
    ELSE IF ~Get(s1.bond).active THEN Panic("bond not active", s)
    ELSE
      LET b == Get(s1.bond)
          withdraw_amount == b.bonded_amount - b.slashed_amount
          updated == [b EXCEPT !.identity = identity,
                               !.bonded_amount = 0,
                               !.active = FALSE]
      IN  Ok([s1 EXCEPT !.bond = Some(updated)], withdraw_amount)

\* A slash_bond that does not compare the caller with the stored admin.
slash_bond_by_anyone(s, a, slash_amount) ==
    LET s1 == acquire_lock(s) IN
    IF s1.admin = None THEN Panic("no admin", s)
    ELSE IF s1.bond = None THEN Panic("no bond", s)
    ELSE IF ~Get(s1.bond).active THEN Panic("bond not active", s)
    ELSE
      LET b == Get(s1.bond)
          new_slashed == b.slashed_amount + slash_amount
      IN
      IF new_slashed > b.bonded_amount THEN Panic("slash exceeds bond", s)
      ELSE Ok([s1 EXCEPT !.bond = Some([b EXCEPT !.slashed_amount = new_slashed])],
              new_slashed)

\* A slash_bond that caps the slashed amount at the bonded amount instead of
\* refusing.
slash_bond_capping(s, a, slash_amount) ==
    LET s1 == acquire_lock(s) IN
    IF s1.admin = None THEN Panic("no admin", s)
    ELSE IF Get(s1.admin) /= a THEN Panic("not admin", s)
    ELSE IF s1.bond = None THEN Panic("no bond", s)
    ELSE IF ~Get(s1.bond).active THEN Panic("bond not active", s)
    ELSE
      LET b == Get(s1.bond)
          new_slashed == b.slashed_amount + slash_amount
          capped == IF new_slashed > b.bonded_amount THEN b.bonded_amount ELSE new_slashed
      IN  Ok([s1 EXCEPT !.bond = Some([b EXCEPT !.slashed_amount = capped])], capped)

\* CredenceBond::slash_bond up to its external call.
slash_bond_enter(s, a, slash_amount) ==
    LET s1 == acquire_lock(s) IN
    IF s1.admin = None THEN Panic("no admin", s)
    ELSE IF Get(s1.admin) /= a THEN Panic("not admin", s)
    ELSE IF s1.bond = None THEN Panic("no bond", s)
    ELSE IF ~Get(s1.bond).active THEN Panic("bond not active", s)
    ELSE
      LET b == Get(s1.bond)
          new_slashed == b.slashed_amount + slash_amount
      IN
      IF new_slashed > b.bonded_amount THEN Panic("slash exceeds bond", s)
      ELSE Ok([s1 EXCEPT !.bond = Some([b EXCEPT !.slashed_amount = new_slashed])],
              new_slashed)

\* A collection that returns the pool and leaves it as it is.
collect_fees_keeping_pool(s, a) ==
    LET s1 == acquire_lock(s) IN
    IF s1.admin = None THEN Panic("no admin", s)
    ELSE IF Get(s1.admin) /= a THEN Panic("not admin", s)
    ELSE Ok(s1, UnwrapOr(s1.fees, 0))

\* CredenceBond::collect_fees up to its external call.
collect_fees_enter(s, a) ==
    LET s1 == acquire_lock(s) IN
    IF s1.admin = None THEN Panic("no admin", s)
    ELSE IF Get(s1.admin) /= a THEN Panic("not admin", s)
    ELSE Ok([s1 EXCEPT !.fees = Some(0)], UnwrapOr(s1.fees, 0))

\* CredenceBond::collect_fees from entry to return when no callback is
\* registered; returns the amount collected.
collect_fees(s, a) ==
    LET r == collect_fees_enter(s, a)
    IN  IF r.err /= "" THEN r ELSE Ok(release_lock(r.st), r.ret)

\* The part of a guarded entry point before its external call.
Enter(op, s, caller, n) ==
    CASE op = "withdraw_bond_full" -> withdraw_bond_full_enter(s, caller)
      [] op = "slash_bond" -> slash_bond_enter(s, caller, n)
      [] op = "collect_fees" -> collect_fees_enter(s, caller)

\* The part after the external call returned: release_lock, then return.
Leave(s) == release_lock(s)

(* ----------------------------- actions -------------------------------- *)

\* A top-level invocation of an entry point that makes no call back into
\* the contract: its writes are committed unless it panicked.
InvokeOn(op, pid, r) ==
    /\ stack = << >>
    /\ Commit(r.st)
    /\ last' = Call(op, pid, r, 0)
    /\ UNCHANGED << now, stack >>

Invoke(op, r) == InvokeOn(op, 0, r)

\* An invocation of a guarded entry point, top-level or from a running
\* callback.  With no callback registered it runs to its end; otherwise it
\* stays on the stack while its callback runs.
InvokeGuarded(op, caller, n) ==
    /\ Len(stack) < MaxDepth
    /\ LET r == Enter(op, Storage, caller, n) IN
       IF r.err /= ""
       THEN /\ UNCHANGED << storageVars, stack >>
            /\ last' = Call(op, 0, r, Len(stack))
       ELSE IF r.st.callback = None
       THEN /\ Commit(Leave(r.st))
            /\ last' = Call(op, 0, r, Len(stack))
            /\ UNCHANGED stack
       ELSE /\ Commit(r.st)
            /\ stack' = Append(stack, [op |-> op, n |-> n, snap |-> Storage])
            /\ UNCHANGED last
    /\ UNCHANGED now

Top == stack[Len(stack)]
Pop == SubSeq(stack, 1, Len(stack) - 1)

\* The running callback returns: the invocation that called it releases the
\* lock and returns.
CallbackReturn ==
    /\ stack /= << >>
    /\ Commit(Leave(Storage))
    /\ last' = Call(Top.op, 0, Ok(Storage, 0), Len(stack) - 1)
    /\ stack' = Pop
    /\ UNCHANGED now

\* The running callback panics (by itself, or because a call it made
\* panicked): the invocation that called it fails and its writes, and those
\* of everything it called, are discarded.
CallbackPanic ==
    /\ stack /= << >>
    /\ Commit(Top.snap)
    /\ last' = Call(Top.op, 0, Panic("HostError", Top.snap), Len(stack) - 1)
    /\ stack' = Pop
    /\ UNCHANGED now

\* The ledger closes: time passes between invocations.
Tick ==
    /\ stack = << >>
    /\ now < MaxTime
    /\ now' = now + 1
    /\ UNCHANGED << storageVars, stack, last >>

Initialize(a) == Invoke("initialize", initialize(Storage, a))
SetToken(a) == Invoke("set_token", set_token(Storage, a, TOKEN))
SetEarlyExitConfig(a, bps) ==
    Invoke("set_early_exit_config", set_early_exit_config(Storage, a, TREASURY, bps))
SetFeeConfig(a, bps) ==
    Invoke("set_fee_config", set_fee_config(Storage, a, TREASURY, bps))
DepositFees(amount) ==
    /\ UnwrapOr(fees, 0) + amount <= MaxAmount
    /\ Invoke("deposit_fees", deposit_fees(Storage, amount))
SetCallback(cb) == Invoke("set_callback", set_callback(Storage, cb))

\* The model lets the contract hold at most MaxAmount + 1 tokens.
CreateBond(identity, amount, duration, is_rolling, notice) ==
    /\ token_balance + amount <= MaxAmount + 1
    /\ Invoke("create_bond",
              create_bond(Storage, now, identity, amount, duration, is_rolling,
                          notice))
\* create_bond while the contract holds at most cap tokens.
CreateBondWithin(cap, identity, amount, duration, is_rolling, notice) ==
    /\ token_balance + amount <= cap
    /\ Invoke("create_bond",
              create_bond(Storage, now, identity, amount, duration, is_rolling,
                          notice))
\* Amounts around the tier thresholds and the top of the i128 range, and
\* top-ups that stay within a tier, cross one or several, or overflow.
TierAmounts ==
    { << 54784, 32273, 3, 0, 0, 0, 0, 0 >>,
      << 2, 0, 0, 0, 0, 0, 0, 0 >>,
      << 10240, 61035, 0, 0, 0, 0, 0, 0 >>,
      << 51713, 15258, 0, 0, 0, 0, 0, 0 >>,
      << 0, 0, 0, 0, 0, 0, 0, 0 >>,
      << 1, 0, 0, 0, 0, 0, 0, 0 >>,
      << 51711, 15258, 0, 0, 0, 0, 0, 0 >>,
      << 51712, 15258, 0, 0, 0, 0, 0, 0 >>,
      << 61951, 10757, 1, 0, 0, 0, 0, 0 >>,
      << 61952, 10757, 1, 0, 0, 0, 0, 0 >>,
      << 51199, 43031, 4, 0, 0, 0, 0, 0 >>,
      << 51200, 43031, 4, 0, 0, 0, 0, 0 >>,
      << 0, 0, 0, 0, 0, 0, 0, 16384 >>,
      << 65534, 65535, 65535, 65535, 65535, 65535, 65535, 32767 >>,
      << 65535, 65535, 65535, 65535, 65535, 65535, 65535, 32767 >> }
TopUpAmounts ==
    { << 2, 0, 0, 0, 0, 0, 0, 0 >>,
      << 51711, 15258, 0, 0, 0, 0, 0, 0 >>,
      << 51712, 15258, 0, 0, 0, 0, 0, 0 >>,
      << 0, 0, 0, 0, 0, 0, 0, 0 >>,
      << 1, 0, 0, 0, 0, 0, 0, 0 >>,
      << 10240, 61035, 0, 0, 0, 0, 0, 0 >>,
      << 54784, 32273, 3, 0, 0, 0, 0, 0 >>,
      << 51200, 43031, 4, 0, 0, 0, 0, 0 >>,
      << 0, 0, 0, 0, 0, 0, 0, 16384 >>,
      << 65535, 65535, 65535, 65535, 65535, 65535, 65535, 32767 >> }
\* The number of events published is recorded with the call; the bond is
\* followed while its amount is one of TierAmounts.
TopUpChecked(amount) ==
    LET r == top_up_checked(Storage, amount)
    IN  /\ bond /= None => Get(bond).bonded_amount \in TierAmounts
        /\ InvokeOn("top_up", IF r.err = "" THEN Len(r.ret) ELSE 0, r)
TopUp(amount) ==
    /\ token_balance + amount <= MaxAmount + 1
    /\ Invoke("top_up", top_up(Storage, amount))
Withdraw(amount) == Invoke("withdraw", withdraw_bond(Storage, now, amount))
\* withdraw_early while the bonded amount exceeds the tokens held by at most
\* cap (a negative amount can raise the bonded amount).
WithdrawEarlyWithin(cap, amount) ==
    LET r == withdraw_early(Storage, now, amount)
    IN  /\ r.err = "" => Get(r.st.bond).bonded_amount - r.st.token_balance <= cap
        /\ Invoke("withdraw_early", r)
RequestWithdrawal == Invoke("request_withdrawal", request_withdrawal(Storage, now))
\* Whether the bond was renewed is recorded with the call.
RenewIfRolling ==
    InvokeOn("renew_if_rolling", renew_if_rolling(Storage, now).ret,
             renew_if_rolling(Storage, now))
ExtendDuration(d) ==
    /\ bond /= None => Get(bond).bond_start + Get(bond).bond_duration + d <= MaxTime
    /\ Invoke("extend_duration", extend_duration(Storage, d))
\* Slashed amounts are kept at or above -1 (a slash of a negative amount is
\* accepted by the code and lowers the slashed amount without bound).
SlashFloor(amount) ==
    bond /= None => Get(bond).slashed_amount + amount >= -1
\* The amount asked for is recorded with the call.
Slash(a, amount) ==
    /\ SlashFloor(amount)
    /\ InvokeOn("slash", amount, slash(Storage, a, amount))

SlashBond(a, amount) ==
    /\ SlashFloor(amount)
    /\ InvokeGuarded("slash_bond", a, amount)
WithdrawBondFull(identity) == InvokeGuarded("withdraw_bond_full", identity, 0)
CollectFees(a) == InvokeGuarded("collect_fees", a, 0)
\* With no callback registered; the amount collected is recorded with the
\* call.
CollectFeesNoCallback(a) ==
    /\ callback = None
    /\ InvokeOn("collect_fees", collect_fees(Storage, a).ret, collect_fees(Storage, a))

InitializeGovernance(a, govs, q_bps, min_gov) ==
    Invoke("initialize_governance", initialize_governance(Storage, a, govs, q_bps, min_gov))
ProposeSlash(proposer, amount) ==
    /\ UnwrapOr(next_proposal_id, 0) < MaxProposals
    /\ Invoke("propose_slash", propose_slash(Storage, now, proposer, amount))
GovernanceVote(voter, pid, approve) ==
    InvokeOn("governance_vote", pid, vote(Storage, voter, pid, approve))
GovernanceDelegate(governor, to) ==
    Invoke("governance_delegate", delegate(Storage, governor, to))
ExecuteSlashWithGovernance(proposer, pid) ==
    InvokeOn("execute_slash_with_governance", pid,
             execute_slash_with_governance(Storage, proposer, pid))

RegisterAttester(attester) ==
    Invoke("register_attester", register_attester(Storage, attester))
UnregisterAttester(attester) ==
    Invoke("unregister_attester", unregister_attester(Storage, attester))
\* The id of the new attestation is recorded with the call.  At most
\* MaxAttestations attestations are made; refused calls are not limited.
AddAttestation(attester, subject, attestation_data, nonce) ==
    LET r == add_attestation(Storage, now, attester, subject, attestation_data, nonce)
    IN  /\ r.err = "" => UnwrapOr(attestation_counter, 0) < MaxAttestations
        /\ InvokeOn("add_attestation", r.ret, r)
RevokeAttestation(attester, attestation_id, nonce) ==
    InvokeOn("revoke_attestation", attestation_id,
             revoke_attestation(Storage, attester, attestation_id, nonce))
SetAttesterStake(a, attester, amount) ==
    Invoke("set_attester_stake", set_attester_stake(Storage, a, attester, amount))
SetWeightConfig(a, multiplier_bps, max_weight) ==
    Invoke("set_weight_config", set_weight_config(Storage, a, multiplier_bps, max_weight))

(* ------------------------- specifications ----------------------------- *)

\* The bond ledger: lifecycle, slashing and full withdrawal, no callback.
NextBond ==
    \/ Initialize(ADMIN)
    \/ SetToken(ADMIN)
    \/ \E amount \in 0 .. MaxAmount, r \in BOOLEAN : CreateBond(ALICE, amount, 1, r, 1)
    \/ \E amount \in {-1, 1} : TopUp(amount)
    \/ \E amount \in (-1) .. (MaxAmount + 1) : Withdraw(amount)
    \/ RequestWithdrawal
    \/ RenewIfRolling
    \/ ExtendDuration(1)
    \/ \E a \in {ADMIN, ALICE}, amount \in {-1, 1} : SlashBond(a, amount)
    \/ \E i \in {ALICE, MALLORY} : WithdrawBondFull(i)
    \/ Tick

SpecBond == Init /\ [][NextBond]_vars

\* The guarded entry points with a registered callback contract, which may
\* call them again while it runs.
NextReentrancy ==
    \/ Initialize(ADMIN)
    \/ SetToken(ADMIN)
    \/ CreateBond(ALICE, MaxAmount, 1, FALSE, 1)
    \/ DepositFees(1)
    \/ SetCallback("callback")
    \/ \E a \in {ADMIN, MALLORY} : SlashBond(a, 1)
    \/ SlashBond(ADMIN, MaxAmount + 1)
    \/ \E i \in {ALICE, MALLORY} : WithdrawBondFull(i)
    \/ \E a \in {ADMIN, MALLORY} : CollectFees(a)
    \/ CallbackReturn
    \/ CallbackPanic

SpecReentrancy == Init /\ [][NextReentrancy]_vars

\* Governance-gated slashing: three governors, quorum 66%, at least two.
Governors == << G1, G2, G3 >>
QuorumBps == 6600
MinGovernors == 2
Voters == {G1, G2, DELEGATE}
ProposalIds == 0 .. (MaxProposals - 1)

\* The storage once the admin is set, the token is set and alice has bonded
\* MaxAmount.
BondedStorage ==
    LET s0 == [ admin |-> None, token |-> None, bond |-> None, fees |-> None,
                fee_config |-> None, early_exit |-> None, lock |-> None,
                callback |-> None, governors |-> None, quorum_bps |-> None,
                min_governors |-> None, next_proposal_id |-> None,
                proposals |-> EmptyMap, votes |-> EmptyMap,
                delegates |-> EmptyMap, attesters |-> {}, nonces |-> EmptyMap,
                attestations |-> EmptyMap, attestation_counter |-> None,
                dedup |-> EmptyMap, subject_attestations |-> EmptyMap,
                subject_count |-> EmptyMap, attester_stake |-> EmptyMap,
                weight_cfg |-> None, token_balance |-> 0 ]
        s1 == initialize(s0, ADMIN).st
        s2 == set_token(s1, ADMIN, TOKEN).st
    IN  create_bond(s2, 0, ALICE, MaxAmount, 1, FALSE, 1).st

InitGov ==
    /\ admin = BondedStorage.admin
    /\ token = BondedStorage.token
    /\ bond = BondedStorage.bond
    /\ fees = BondedStorage.fees
    /\ fee_config = BondedStorage.fee_config
    /\ early_exit = BondedStorage.early_exit
    /\ lock = BondedStorage.lock
    /\ callback = BondedStorage.callback
    /\ governors = BondedStorage.governors
    /\ quorum_bps = BondedStorage.quorum_bps
    /\ min_governors = BondedStorage.min_governors
    /\ next_proposal_id = BondedStorage.next_proposal_id
    /\ proposals = BondedStorage.proposals
    /\ votes = BondedStorage.votes
    /\ delegates = BondedStorage.delegates
    /\ attesters = BondedStorage.attesters
    /\ nonces = BondedStorage.nonces
    /\ attestations = BondedStorage.attestations
    /\ attestation_counter = BondedStorage.attestation_counter
    /\ dedup = BondedStorage.dedup
    /\ subject_attestations = BondedStorage.subject_attestations
    /\ subject_count = BondedStorage.subject_count
    /\ attester_stake = BondedStorage.attester_stake
    /\ weight_cfg = BondedStorage.weight_cfg
    /\ token_balance = BondedStorage.token_balance
    /\ now = 0 /\ stack = << >> /\ last = NoCall

NextGov ==
    \/ InitializeGovernance(ADMIN, Governors, QuorumBps, MinGovernors)
    \/ ProposeSlash(ADMIN, 1)
    \/ \E v \in Voters, pid \in ProposalIds, approve \in BOOLEAN :
          GovernanceVote(v, pid, approve)
    \/ \E g \in {G2, G3} : GovernanceDelegate(g, DELEGATE)
    \/ \E pid \in ProposalIds : ExecuteSlashWithGovernance(ADMIN, pid)

SpecGov == InitGov /\ [][NextGov]_vars

\* Governance with a chain of delegations (g1 to g2, g2 to the delegate or
\* to g3), a voter who is neither governor nor delegate, and a governor who
\* tries to execute the admin's proposal.

NextGovAccess ==
    \/ InitializeGovernance(ADMIN, Governors, QuorumBps, MinGovernors)
    \/ ProposeSlash(ADMIN, 1)
    \/ \E v \in {G2, DELEGATE, MALLORY}, pid \in ProposalIds, approve \in BOOLEAN :
          GovernanceVote(v, pid, approve)
    \/ GovernanceDelegate(G1, G2)
    \/ \E to \in {DELEGATE, G3} : GovernanceDelegate(G2, to)
    \/ \E p \in {ADMIN, G2}, pid \in ProposalIds : ExecuteSlashWithGovernance(p, pid)

SpecGovAccess == InitGov /\ [][NextGovAccess]_vars

\* The attestation registry: two attesters who are registered and
\* unregistered, attest about two subjects and revoke; the first attester
\* also makes a second statement about alice.
Attesters == {V1, V2}
Subjects == {ALICE, MALLORY}
AttestationIds == 0 .. MaxAttestations
Nonces == 0 .. (MaxAttestations + 1)

NextAttest ==
    \/ Initialize(ADMIN)
    \/ \E a \in Attesters : RegisterAttester(a)
    \/ \E a \in Attesters : UnregisterAttester(a)
    \/ \E a \in Attesters, subject \in Subjects, d \in {"kyc"}, n \in Nonces :
          AddAttestation(a, subject, d, n)
    \/ \E n \in Nonces : AddAttestation(V1, ALICE, "aml", n)
    \/ \E a \in Attesters, id \in AttestationIds, n \in Nonces :
          RevokeAttestation(a, id, n)

SpecAttest == Init /\ [][NextAttest]_vars

\* Revocation over time: attestations about one subject, made and revoked
\* at different ledger times.
NextRevoke ==
    \/ Initialize(ADMIN)
    \/ \E a \in Attesters : RegisterAttester(a)
    \/ \E a \in Attesters, n \in Nonces : AddAttestation(a, ALICE, "kyc", n)
    \/ \E a \in Attesters, id \in AttestationIds, n \in Nonces :
          RevokeAttestation(a, id, n)
    \/ Tick

SpecRevoke == Init /\ [][NextRevoke]_vars

\* Weighted attestations: the admin sets the stake of an attester and the
\* weight configuration, and the attester attests.  The stakes are -1, 0,
\* 10^6, 2^31 and 100 * 2^32.
Stakes == {WideOf(-1), WideOf(0), WideOf(1000000), << 0, 32768, 0 >>, << 100, 0, 0 >>}

NextWeight ==
    \/ Initialize(ADMIN)
    \/ RegisterAttester(V1)
    \/ \E amount \in Stakes : SetAttesterStake(ADMIN, V1, amount)
    \/ \E mult \in {100, 20000}, mw \in {0, 100000, 2000000} : SetWeightConfig(ADMIN, mult, mw)
    \/ \E subject \in Subjects, n \in Nonces : AddAttestation(V1, subject, "kyc", n)

SpecWeight == Init /\ [][NextWeight]_vars

\* Bond creation fees: the admin sets the fee rate (0, 1%, 100%, and one
\* above the maximum) and alice bonds 0, 150 or 1000, or tries -1.
FeeAmounts == {-1, 0, 150, 1000}

NextFee ==
    \/ Initialize(ADMIN)
    \/ SetToken(ADMIN)
    \/ \E bps \in {0, 100, 10000, 10001} : SetFeeConfig(ADMIN, bps)
    \/ \E amount \in FeeAmounts, r \in BOOLEAN :
          CreateBondWithin(MaxFunds, ALICE, amount, 1, r, 1)

SpecFee == Init /\ [][NextFee]_vars

\* Early exit: alice bonds 1000 for 1 or 3 ledger times, the admin sets the
\* penalty rate (5%, 100% or none), and alice withdraws early or after the
\* lock-up.
ExitAmounts == {-1, 0, 30, 1000}

NextExit ==
    \/ Initialize(ADMIN)
    \/ SetToken(ADMIN)
    \/ \E bps \in {0, 500, 10000} : SetEarlyExitConfig(ADMIN, bps)
    \/ \E d \in {1, 3}, r \in BOOLEAN : CreateBondWithin(1000, ALICE, 1000, d, r, 1)
    \/ \E amount \in ExitAmounts : WithdrawEarlyWithin(MaxUnbacked, amount)
    \/ \E amount \in ExitAmounts : Withdraw(amount)
    \/ Tick

SpecExit == Init /\ [][NextExit]_vars

\* The direct slash entry point on plain and rolling bonds, with top-ups
\* and withdrawals in between.
NextSlash ==
    \/ Initialize(ADMIN)
    \/ SetToken(ADMIN)
    \/ \E amount \in 1 .. MaxAmount, r \in BOOLEAN : CreateBond(ALICE, amount, 1, r, 1)
    \/ \E a \in {ADMIN, ALICE}, amount \in (0 .. (MaxAmount + 1)) : Slash(a, amount)
    \/ TopUp(1)
    \/ \E amount \in 1 .. MaxAmount : Withdraw(amount)
    \/ RequestWithdrawal
    \/ Tick

SpecSlash == Init /\ [][NextSlash]_vars

\* Proposals by the admin, by a governor and by an outsider, with amounts
\* zero and positive, votes of two governors, execution by the admin or the
\* governor, and governance initialised again at any time.
NextPropose ==
    \/ InitializeGovernance(ADMIN, Governors, QuorumBps, MinGovernors)
    \/ \E p \in {ADMIN, G1, MALLORY}, amount \in {0, 1} : ProposeSlash(p, amount)
    \/ \E v \in {G1, G2}, pid \in ProposalIds, approve \in BOOLEAN :
          GovernanceVote(v, pid, approve)
    \/ \E p \in {ADMIN, G1}, pid \in ProposalIds : ExecuteSlashWithGovernance(p, pid)

SpecPropose == InitGov /\ [][NextPropose]_vars

\* The fee pool: creation fees at 50%, deposits, and collection by the
\* admin and by someone else.
NextPool ==
    \/ Initialize(ADMIN)
    \/ SetToken(ADMIN)
    \/ \E bps \in {0, 5000} : SetFeeConfig(ADMIN, bps)
    \/ CreateBondWithin(3 * MaxAmount, ALICE, MaxAmount, 1, FALSE, 1)
    \/ DepositFees(1)
    \/ \E a \in {ADMIN, MALLORY} : CollectFeesNoCallback(a)

SpecPool == Init /\ [][NextPool]_vars

\* Two addresses that both call initialize and the admin-only entry points.
NextAdmin ==
    \/ \E a \in {ADMIN, MALLORY} : Initialize(a)
    \/ \E a \in {ADMIN, MALLORY} : SetToken(a)
    \/ \E a \in {ADMIN, MALLORY} : SetFeeConfig(a, 5000)
    \/ \E amount \in 1 .. MaxAmount : CreateBond(ALICE, amount, 1, FALSE, 1)
    \/ \E a \in {ADMIN, MALLORY} : SlashBond(a, 1)
    \/ \E a \in {ADMIN, MALLORY} : Slash(a, 1)
    \/ \E a \in {ADMIN, MALLORY} : CollectFees(a)

SpecAdmin == Init /\ [][NextAdmin]_vars

\* top_up at full width: the bond starts at one of TierAmounts.
InitTier ==
    \E w \in TierAmounts :
        LET s == [BondedStorage EXCEPT
                      !.token_balance = w,
                      !.bond = Some([Get(@) EXCEPT
                                         !.bonded_amount = w,
                                         !.slashed_amount =
                                             << 0, 0, 0, 0, 0, 0, 0, 0 >>])]
        IN
        /\ admin = s.admin
        /\ token = s.token
        /\ bond = s.bond
        /\ fees = s.fees
        /\ fee_config = s.fee_config
        /\ early_exit = s.early_exit
        /\ lock = s.lock
        /\ callback = s.callback
        /\ governors = s.governors
        /\ quorum_bps = s.quorum_bps
        /\ min_governors = s.min_governors
        /\ next_proposal_id = s.next_proposal_id
        /\ proposals = s.proposals
        /\ votes = s.votes
        /\ delegates = s.delegates
        /\ attesters = s.attesters
        /\ nonces = s.nonces
        /\ attestations = s.attestations
        /\ attestation_counter = s.attestation_counter
        /\ dedup = s.dedup
        /\ subject_attestations = s.subject_attestations
        /\ subject_count = s.subject_count
        /\ attester_stake = s.attester_stake
        /\ weight_cfg = s.weight_cfg
        /\ token_balance = s.token_balance
        /\ now = 0 /\ stack = << >> /\ last = NoCall

NextTier == \E amount \in TopUpAmounts : TopUpChecked(amount)

SpecTier == InitTier /\ [][NextTier]_vars

(* ------------------------------ claims -------------------------------- *)

\* C1: after every call of a bond operation the stored bond has
\* slashed_amount <= bonded_amount.
C1_SlashedAtMostBonded ==
    (stack = << >> /\ bond /= None) =>
        Get(bond).slashed_amount <= Get(bond).bonded_amount

C3_ReentrantCallRejected ==
    /\ Len(stack) <= 1
    /\ last.depth >= 1 => last.err /= ""

\* C4: whenever no invocation is in progress, is_locked() is false.
C4_LockFreeBetweenInvocations ==
    stack = << >> => ~is_locked(Storage)

\* A top-level guarded invocation has returned from its callback.
C4_Witness ==
    /\ stack = << >> /\ callback /= None
    /\ last.op \in {"slash_bond", "withdraw_bond_full", "collect_fees"}
    /\ last.depth = 0 /\ last.err = ""
    /\ lock = Some(FALSE)

\* C5: while the callback of a guarded invocation runs, is_locked() is true
\* and the invocation's write is in storage: bonded_amount 0 and active false
\* (withdraw_bond_full), the increased slashed_amount (slash_bond), a fee
\* pool of 0 (collect_fees).
C5_CallbackSeesWriteAndLock ==
    stack /= << >> =>
        /\ is_locked(Storage)
        /\ Top.op = "withdraw_bond_full" =>
              Get(bond).bonded_amount = 0 /\ ~Get(bond).active
        /\ Top.op = "slash_bond" =>
              Get(bond).slashed_amount >= Get(Top.snap.bond).slashed_amount + Top.n
        /\ Top.op = "collect_fees" => fees = Some(0)

\* C6: execute_slash_with_governance on an Open proposal executes it (status
\* Executed, amount added to slashed_amount, capped at bonded_amount) only if
\* voted >= max(floor(total_governors * quorum_bps / 10000), min_governors)
\* and approve_count > voted / 2, voted counting the governors whose
\* effective voter has voted; otherwise it fails with 'proposal not approved'
\* and the bond is unchanged.
C6_ExecutesOnlyWithQuorumAndMajority ==
    \A pid \in DOMAIN proposals :
        (proposals[pid].status = Open /\ proposals[pid].proposed_by = ADMIN) =>
            LET r == execute_slash_with_governance(Storage, ADMIN, pid)
                govs == IF governors = None THEN << >> ELSE Get(governors)
                voter_of(g) == IF g \in DOMAIN delegates THEN delegates[g] ELSE g
                counted == { i \in 1 .. Len(govs) :
                                << pid, voter_of(govs[i]) >> \in DOMAIN votes }
                approving == { i \in counted : votes[<< pid, voter_of(govs[i]) >>] }
                voted == Cardinality(counted)
                approve_count == Cardinality(approving)
                q_bps == IF quorum_bps = None THEN DEFAULT_QUORUM_BPS ELSE Get(quorum_bps)
                min_gov == IF min_governors = None
                           THEN DEFAULT_MIN_GOVERNORS ELSE Get(min_governors)
                floor_q == (Len(govs) * q_bps) \div 10000
                required == IF floor_q >= min_gov THEN floor_q ELSE min_gov
                approved == voted >= required /\ approve_count > voted \div 2
                b == Get(bond)
                sum == b.slashed_amount + proposals[pid].amount
            IN  /\ r.err = "" => approved
                /\ approved =>
                      /\ r.err = ""
                      /\ r.st.proposals[pid].status = Executed
                      /\ r.st.bond =
                            Some([b EXCEPT !.slashed_amount =
                                     IF sum > b.bonded_amount THEN b.bonded_amount ELSE sum])
                /\ ~approved =>
                      r.err = "proposal not approved" /\ r.st.bond = bond

\* Three governors, quorum_bps 6600, min_governors 2: the approvals of two of
\* them have executed the proposal and its amount is slashed.
C6_Witness ==
    /\ last.op = "execute_slash_with_governance" /\ last.err = ""
    /\ governors = Some(Governors) /\ quorum_bps = Some(QuorumBps)
    /\ min_governors = Some(MinGovernors)
    /\ delegates = EmptyMap
    /\ DOMAIN votes = {<< 0, G1 >>, << 0, G2 >>}
    /\ votes[<< 0, G1 >>] /\ votes[<< 0, G2 >>]
    /\ proposals[0].status = Executed
    /\ Get(bond).slashed_amount = proposals[0].amount

\* C7: a proposal whose status is Executed or Rejected keeps that status in
\* every later state.
C7_ClosedProposalStaysClosed ==
    [][\A pid \in DOMAIN proposals :
          proposals[pid].status \in {Executed, Rejected} =>
              /\ pid \in DOMAIN proposals'
              /\ proposals'[pid].status = proposals[pid].status]_vars

\* C8: after execute_slash_with_governance has been refused for want of
\* quorum and majority, the proposal's stored status is Rejected.
C8_UnapprovedExecutionRejects ==
    (last.op = "execute_slash_with_governance" /\ last.err = "proposal not approved")
        => proposals[last.pid].status = Rejected

\* C9: an approve vote accepted on a proposal that is approved leaves it
\* approved.
C9_ApproveVoteKeepsApproval ==
    \A pid \in DOMAIN proposals : \A voter \in Voters :
        LET r == vote(Storage, voter, pid, TRUE)
        IN  (r.err = "" /\ is_approved(Storage, pid)) => is_approved(r.st, pid)

\* The last call recorded an approve vote that is counted, on a proposal
\* that was approved without it and is approved with it.
C9_Witness ==
    /\ last.op = "governance_vote" /\ last.err = ""
    /\ \E voter \in Voters :
          /\ Has(votes, << last.pid, voter >>) /\ votes[<< last.pid, voter >>]
          /\ LET before == [Storage EXCEPT !.votes =
                              [k \in (DOMAIN votes) \ {<< last.pid, voter >>} |-> votes[k]]]
             IN  /\ vote(before, voter, last.pid, TRUE).st = Storage
                 /\ is_approved(before, last.pid)
                 /\ is_approved(Storage, last.pid)
                 /\ count_votes(before, last.pid).approve
                       < count_votes(Storage, last.pid).approve

\* C10 as stated: a proposal is approved only if the number of distinct
\* addresses whose votes are counted for it is at least
\* max(floor(total_governors * quorum_bps / 10000), min_governors).
C10_QuorumOfDistinctVoters ==
    \A pid \in DOMAIN proposals :
        is_approved(Storage, pid) =>
            LET govs == IF governors = None THEN << >> ELSE Get(governors)
                voter_of(g) == IF g \in DOMAIN delegates THEN delegates[g] ELSE g
                counted_voters ==
                    { voter_of(govs[i]) : i \in { j \in 1 .. Len(govs) :
                          << pid, voter_of(govs[j]) >> \in DOMAIN votes } }
                q_bps == IF quorum_bps = None THEN DEFAULT_QUORUM_BPS ELSE Get(quorum_bps)
                min_gov == IF min_governors = None
                           THEN DEFAULT_MIN_GOVERNORS ELSE Get(min_governors)
                floor_q == (Len(govs) * q_bps) \div 10000
                required == IF floor_q >= min_gov THEN floor_q ELSE min_gov
            IN  Cardinality(counted_voters) >= required

\* C10, amended: quorum is a count of governors, not of distinct voters: a
\* proposal is approved only if the number of governors whose effective voter
\* (the governor's delegate if it has one, else the governor) has voted on it
\* is at least max(floor(total_governors * quorum_bps / 10000),
\* min_governors), and that number is the sum, over the distinct addresses
\* whose votes are counted, of the number of governors each one stands for.
C10_QuorumOfGovernorsRepresented ==
    \A pid \in DOMAIN proposals :
        LET govs == IF governors = None THEN << >> ELSE Get(governors)
            voter_of(g) == IF g \in DOMAIN delegates THEN delegates[g] ELSE g
            stands_for(a) == { i \in 1 .. Len(govs) : voter_of(govs[i]) = a }
            voters == { a \in { voter_of(govs[i]) : i \in 1 .. Len(govs) } :
                           << pid, a >> \in DOMAIN votes }
            represented == UNION { stands_for(a) : a \in voters }
            q_bps == IF quorum_bps = None THEN DEFAULT_QUORUM_BPS ELSE Get(quorum_bps)
            min_gov == IF min_governors = None
                       THEN DEFAULT_MIN_GOVERNORS ELSE Get(min_governors)
            floor_q == (Len(govs) * q_bps) \div 10000
            required == IF floor_q >= min_gov THEN floor_q ELSE min_gov
        IN  /\ count_votes(Storage, pid).voted = Cardinality(represented)
            /\ is_approved(Storage, pid) => Cardinality(represented) >= required

\* A proposal is approved on the vote of one address, the delegate of two
\* governors.
C10_Witness ==
    \E pid \in DOMAIN proposals :
        /\ is_approved(Storage, pid)
        /\ Has(delegates, G2) /\ delegates[G2] = DELEGATE
        /\ Has(delegates, G3) /\ delegates[G3] = DELEGATE
        /\ { k \in DOMAIN votes : k[1] = pid } = {<< pid, DELEGATE >>}
        /\ count_votes(Storage, pid).voted = 2

\* C11: delegation is resolved one hop.  The vote counted for a governor is
\* the vote stored for its delegate (for itself when it has none), whatever
\* that delegate has delegated in turn; and governance_delegate by a governor
\* replaces that governor's delegate and no other.
C11_DelegationOneHop ==
    /\ \A pid \in ProposalIds : \A i \in 1 .. Len(get_governors(Storage)) :
          LET g == get_governors(Storage)[i]
              for_g == count_votes([Storage EXCEPT !.governors = Some(<< g >>)], pid)
              b == IF g \in DOMAIN delegates THEN delegates[g] ELSE g
              cast == << pid, b >> \in DOMAIN votes
          IN  /\ for_g.voted = IF cast THEN 1 ELSE 0
              /\ for_g.approve = IF cast /\ votes[<< pid, b >>] THEN 1 ELSE 0
              /\ for_g.reject = IF cast /\ ~votes[<< pid, b >>] THEN 1 ELSE 0
    /\ \A g \in {G1, G2, G3} : \A to \in {G2, G3, DELEGATE} :
          LET r == delegate(Storage, g, to)
          IN  r.err = "" =>
                /\ r.st.delegates[g] = to
                /\ \A h \in DOMAIN delegates : h /= g => r.st.delegates[h] = delegates[h]
                /\ DOMAIN r.st.delegates = DOMAIN delegates \cup {g}

\* g1 has delegated to g2 and g2 to the delegate, and g2 and the delegate
\* have cast opposite votes on a proposal.
C11_Witness ==
    /\ last.op = "governance_vote" /\ last.err = ""
    /\ Has(delegates, G1) /\ delegates[G1] = G2
    /\ Has(delegates, G2) /\ delegates[G2] = DELEGATE
    /\ Has(votes, << last.pid, G2 >>) /\ Has(votes, << last.pid, DELEGATE >>)
    /\ votes[<< last.pid, G2 >>] /= votes[<< last.pid, DELEGATE >>]

\* C12: governance_vote is accepted only if the proposal is Open, the voter
\* is a governor or the delegate of a governor, and the voter has no vote
\* stored on the proposal; a voter with a stored vote fails 'already voted',
\* any other address fails 'not a governor or delegate', and a failed vote
\* leaves the stored votes unchanged.
C12_VoteEligibility ==
    \A voter \in {G1, G2, G3, DELEGATE, MALLORY, ADMIN} :
      \A pid \in ProposalIds : \A approve \in BOOLEAN :
        LET r == vote(Storage, voter, pid, approve)
            govs == IF governors = None THEN << >> ELSE Get(governors)
            exists == pid \in DOMAIN proposals
            open == exists /\ proposals[pid].status = Open
            eligible == \/ \E i \in 1 .. Len(govs) : govs[i] = voter
                        \/ \E i \in 1 .. Len(govs) :
                              govs[i] \in DOMAIN delegates /\ delegates[govs[i]] = voter
            has_voted == << pid, voter >> \in DOMAIN votes
        IN  /\ r.err = "" => open /\ eligible /\ ~has_voted
            /\ r.err = "" =>
                  r.st.votes = [k \in (DOMAIN votes) \cup {<< pid, voter >>} |->
                                   IF k = << pid, voter >> THEN approve ELSE votes[k]]
            /\ (open /\ governors /= None /\ eligible /\ has_voted)
                  => r.err = "already voted"
            /\ (open /\ governors /= None /\ ~eligible)
                  => r.err = "not a governor or delegate"
            /\ r.err /= "" => r.st.votes = votes

\* A second vote by a voter was refused, and so was the vote of an address
\* that is neither governor nor delegate on the same open proposal.
C12_Witness ==
    /\ last.op = "governance_vote" /\ last.err = "already voted"
    /\ proposals[last.pid].status = Open
    /\ vote(Storage, MALLORY, last.pid, TRUE).err = "not a governor or delegate"
    /\ Has(votes, << last.pid, DELEGATE >>)

\* C13: execute_slash_with_governance succeeds only for the address stored
\* as proposed_by; any other caller fails with 'only proposer can execute'
\* and nothing is changed.
C13_OnlyProposerExecutes ==
    \A pid \in DOMAIN proposals : \A caller \in {ADMIN, G1, G2, MALLORY} :
        LET r == execute_slash_with_governance(Storage, caller, pid)
        IN  /\ r.err = "" => caller = proposals[pid].proposed_by
            /\ caller /= proposals[pid].proposed_by =>
                  /\ r.err = "only proposer can execute"
                  /\ r.st = Storage

\* A governor who voted to approve the admin's proposal, now approved, was
\* refused its execution.
C13_Witness ==
    /\ last.op = "execute_slash_with_governance"
    /\ last.err = "only proposer can execute"
    /\ Has(votes, << last.pid, G2 >>) /\ votes[<< last.pid, G2 >>]
    /\ proposals[last.pid].status = Open
    /\ is_approved(Storage, last.pid)

\* C14: an identity's nonce starts at 0 and each value is accepted at most
\* once.  At every reachable state the stored nonce of an attester is the
\* number of its calls that succeeded so far (one per attestation it made,
\* one more per attestation it revoked); add_attestation and
\* revoke_attestation with any input succeed only with the stored nonce and
\* then store exactly one more, and when they fail the nonces are as before.
C14_NonceAcceptedOnce ==
    LET Consumed(r, a, n) ==
            IF r.err = ""
            THEN /\ n = get_nonce(Storage, a)
                 /\ r.st.nonces = Put(nonces, a, n + 1)
            ELSE r.st.nonces = nonces
    IN  /\ \A a \in Attesters :
            get_nonce(Storage, a) =
                Cardinality({i \in DOMAIN attestations : attestations[i].verifier = a})
              + Cardinality({i \in DOMAIN attestations :
                               attestations[i].verifier = a /\ attestations[i].revoked})
        /\ \A a \in Attesters, n \in Nonces :
            /\ \A subject \in Subjects, d \in {"kyc", "aml"} :
                 Consumed(add_attestation(Storage, now, a, subject, d, n), a, n)
            /\ \A id \in AttestationIds :
                 Consumed(revoke_attestation(Storage, a, id, n), a, n)

\* The first attester added and revoked (nonces 0 and 1 consumed) and a call
\* with a used or future nonce has just been refused.
C14_Witness ==
    /\ last.err = "invalid nonce: replay or out-of-order"
    /\ get_nonce(Storage, V1) = 2
    /\ \E i \in DOMAIN attestations :
          attestations[i].verifier = V1 /\ attestations[i].revoked

\* C15: at every reachable state no two non-revoked attestations have the
\* same (verifier, subject, data), and add_attestation for a triple that has
\* a non-revoked attestation fails and stores nothing, whatever the nonce;
\* from an authorized attester with its current nonce the failure is
\* 'duplicate attestation'.
C15_OneLiveAttestationPerTriple ==
    LET Triple(x) == << x.verifier, x.identity, x.attestation_data >>
        Live == {i \in DOMAIN attestations : ~attestations[i].revoked}
    IN  /\ \A i, j \in Live : Triple(attestations[i]) = Triple(attestations[j]) => i = j
        /\ \A i \in Live, n \in Nonces :
              LET x == attestations[i]
                  r == add_attestation(Storage, now, x.verifier, x.identity,
                                       x.attestation_data, n)
              IN  /\ r.err /= ""
                  /\ r.st = Storage
                  /\ (is_attester(Storage, x.verifier) /\ n = get_nonce(Storage, x.verifier))
                        => r.err = "duplicate attestation"

\* A second attestation of a live triple has just been refused, while
\* another triple of the same attester was accepted.
C15_Witness ==
    /\ last.op = "add_attestation"
    /\ last.err = "duplicate attestation"
    /\ \E i, j \in DOMAIN attestations :
          /\ i /= j
          /\ attestations[i].verifier = attestations[j].verifier
          /\ ~attestations[i].revoked /\ ~attestations[j].revoked

\* C16 as stated: right after a successful revoke_attestation, add_attestation
\* by the verifier with the revoked attestation's subject and data and the
\* verifier's current nonce succeeds.
C16_ReAddAfterRevokeSucceeds ==
    [][(last'.op = "revoke_attestation" /\ last'.err = "") =>
         LET x == attestations'[last'.pid]
             r == add_attestation(Storage', now', x.verifier, x.identity,
                                  x.attestation_data, get_nonce(Storage', x.verifier))
         IN  r.err = ""]_vars

\* C16, amended: right after a successful revoke_attestation by a verifier
\* that is an authorized attester, add_attestation by it with the revoked
\* attestation's subject and data and its current nonce succeeds, the new
\* attestation has an id no attestation had, is not revoked and carries the
\* same triple, and the revoked record is as the revocation left it.
C16_AuthorizedReAddAfterRevoke ==
    [][(last'.op = "revoke_attestation" /\ last'.err = ""
          /\ is_attester(Storage', attestations'[last'.pid].verifier)) =>
         LET x == attestations'[last'.pid]
             r == add_attestation(Storage', now', x.verifier, x.identity,
                                  x.attestation_data, get_nonce(Storage', x.verifier))
             y == r.st.attestations[r.ret]
         IN  /\ r.err = ""
             /\ r.ret \notin DOMAIN attestations'
             /\ ~y.revoked
             /\ << y.verifier, y.identity, y.attestation_data >> =
                  << x.verifier, x.identity, x.attestation_data >>
             /\ x.revoked
             /\ r.st.attestations[last'.pid] = x]_vars

\* The re-added attestation is stored: the last call added an attestation
\* whose triple is that of an earlier, revoked one.
C16_Witness ==
    /\ last.op = "add_attestation" /\ last.err = ""
    /\ \E i \in DOMAIN attestations :
          /\ i < last.pid
          /\ attestations[i].revoked
          /\ ~attestations[last.pid].revoked
          /\ attestations[i].verifier = attestations[last.pid].verifier
          /\ attestations[i].identity = attestations[last.pid].identity
          /\ attestations[i].attestation_data = attestations[last.pid].attestation_data

\* C17: add_attestation succeeds only for an attester that is in the
\* authorized set when it calls.  At every reachable state and for every
\* caller, subject, data and nonce, a caller outside the set (never
\* registered, or unregistered since) is refused with 'unauthorized
\* attester' and storage (attestations, nonces, counter) is unchanged.
C17_OnlyAuthorizedAttesterAdds ==
    \A a \in Attesters \cup {MALLORY}, subject \in Subjects,
       d \in {"kyc", "aml"}, n \in Nonces :
        LET r == add_attestation(Storage, now, a, subject, d, n)
        IN  /\ r.err = "" => a \in attesters
            /\ a \notin attesters =>
                  /\ r.err = "unauthorized attester"
                  /\ r.st = Storage

\* Both attesters attested, both were unregistered, and the one that tried
\* again has just been refused.
C17_Witness ==
    /\ last.op = "add_attestation"
    /\ last.err = "unauthorized attester"
    /\ attesters = {}
    /\ \A a \in Attesters : \E i \in DOMAIN attestations : attestations[i].verifier = a

\* C18: in every step, a revoke_attestation that succeeds (an invocation,
\* which leaves the ledger time as it is) is on a stored attestation that
\* was not revoked and is by its verifier (the nonce it consumed is the
\* verifier's); every stored attestation stays stored with the same id,
\* verifier, subject, timestamp, weight and data; a revoked attestation
\* stays revoked; and the revoked flag changes only by a successful
\* revoke_attestation of that id.
C18_RevocationByVerifierIsPermanent ==
    [][/\ (now' = now /\ last'.op = "revoke_attestation" /\ last'.err = "") =>
            /\ Has(attestations, last'.pid)
            /\ ~attestations[last'.pid].revoked
            /\ attestations'[last'.pid].revoked
            /\ nonces' = Put(nonces, attestations[last'.pid].verifier,
                            get_nonce(Storage, attestations[last'.pid].verifier) + 1)
       /\ \A i \in DOMAIN attestations :
            /\ Has(attestations', i)
            /\ [attestations'[i] EXCEPT !.revoked = FALSE] =
                 [attestations[i] EXCEPT !.revoked = FALSE]
            /\ attestations[i].revoked => attestations'[i].revoked
            /\ attestations'[i].revoked /= attestations[i].revoked =>
                 (last'.op = "revoke_attestation" /\ last'.err = "" /\ last'.pid = i)
      ]_vars

\* An attestation made after the first ledger close is revoked, another is
\* live, and a second revocation by the verifier has just been refused.
C18_Witness ==
    /\ last.op = "revoke_attestation"
    /\ last.err = "attestation already revoked"
    /\ attestations[last.pid].revoked
    /\ attestations[last.pid].timestamp >= 1
    /\ \E i \in DOMAIN attestations : ~attestations[i].revoked

\* C19: at every reachable state, for every subject,
\* get_subject_attestation_count is the number of non-revoked attestations
\* about it and get_subject_attestations is the list of the ids of all
\* attestations about it, revoked or not, in increasing id (creation) order.
C19_CountAndListPerSubject ==
    \A subject \in Subjects :
        LET list == get_subject_attestations(Storage, subject)
            About == {i \in DOMAIN attestations : attestations[i].identity = subject}
        IN  /\ get_subject_attestation_count(Storage, subject) =
                 Cardinality({i \in About : ~attestations[i].revoked})
            /\ {list[k] : k \in 1 .. Len(list)} = About
            /\ Len(list) = Cardinality(About)
            /\ \A k \in 1 .. (Len(list) - 1) : list[k] < list[k + 1]

\* Alice has two attestations, the first of them revoked: her list has both
\* ids and her count is one.
C19_Witness ==
    /\ get_subject_attestations(Storage, ALICE) = << 0, 1 >>
    /\ attestations[0].revoked
    /\ get_subject_attestation_count(Storage, ALICE) = 1

\* C20: the weight of a new attestation is 1 when the attester's stake is
\* <= 0 and otherwise floor(stake * multiplier_bps / 10000) clamped to
\* 1 .. min(configured_max_weight, 1_000_000), for every stake and
\* multiplier: at every reachable state compute_weight gives that value for
\* the stored stake and configuration, the attestation just added carries
\* it, and every stored weight is in 1 .. 1_000_000.
C20_WeightIsClampedProduct ==
    LET stake == get_attester_stake(Storage, V1)
        cfg == get_weight_config(Storage)
        Cap == IF cfg[2] <= 1000000 THEN cfg[2] ELSE 1000000
        Clamped == IF stake[1] < 0 \/ stake = WideOf(0)
                   THEN 1
                   ELSE Max(1, WideMin(WideDiv(WideMul(stake, cfg[1]), 10000), Cap))
    IN  /\ compute_weight(Storage, V1) = Clamped
        /\ (last.op = "add_attestation" /\ last.err = "") =>
              attestations[last.pid].weight = Clamped
        /\ \A i \in DOMAIN attestations :
              attestations[i].weight \in 1 .. 1000000

\* C21: at every reachable state, create_bond of an amount >= 0 (the token
\* set) stores a bond with bonded_amount = amount - floor(amount * fee_bps /
\* 10000), slashed_amount = 0 and active = true, and adds exactly that fee to
\* the fee pool, so bonded_amount + fee = amount; with no fee configured
\* bonded_amount = amount and the pool is as before.
C21_BondNetOfCreationFee ==
    \A amount \in FeeAmounts, r \in BOOLEAN :
        LET res == create_bond(Storage, now, ALICE, amount, 1, r, 1)
            fee == (amount * FeeBpsOf(Storage)) \div 10000
            b == Get(res.st.bond)
        IN  (amount >= 0 /\ token /= None) =>
              /\ res.err = ""
              /\ b.bonded_amount = amount - fee
              /\ b.slashed_amount = 0
              /\ b.active
              /\ UnwrapOr(res.st.fees, 0) = UnwrapOr(fees, 0) + fee
              /\ b.bonded_amount + fee = amount
              /\ fee_config = None => (b.bonded_amount = amount /\ res.st.fees = fees)

\* A bond of 1000 was created at 100 bps: 990 bonded, 10 in the fee pool.
C21_Witness ==
    /\ last.op = "create_bond" /\ last.err = ""
    /\ FeeBpsOf(Storage) = 100
    /\ Get(bond).bonded_amount = 990
    /\ fees = Some(10)

\* C22: at every reachable state a withdraw_early(amount) that succeeds
\* charges penalty = floor(floor(amount * penalty_bps / 10000) * remaining /
\* bond_duration) with remaining = bond_start + bond_duration - now, sends
\* amount - penalty to the identity and penalty to the treasury (amount in
\* all leaves the contract), lowers bonded_amount by exactly amount, and
\* 0 <= penalty <= amount.
C22_EarlyExitPenalty ==
    \A amount \in ExitAmounts :
        LET res == withdraw_early(Storage, now, amount)
            b == Get(bond)
            remaining == b.bond_start + b.bond_duration - now
            base == (amount * Get(early_exit).penalty_bps) \div 10000
            penalty == (base * remaining) \div b.bond_duration
        IN  res.err = "" =>
              /\ 0 <= penalty /\ penalty <= amount
              /\ res.ret.to_identity = amount - penalty
              /\ res.ret.to_treasury = penalty
              /\ res.st.token_balance = token_balance - amount
              /\ Get(res.st.bond).bonded_amount = b.bonded_amount - amount
              /\ Get(res.st.bond) = [b EXCEPT !.bonded_amount = b.bonded_amount - amount]

\* C23: at every reachable state with a rolling bond, withdraw of any amount
\* succeeds only if a withdrawal request is recorded
\* (withdrawal_requested_at /= 0) and now >= withdrawal_requested_at +
\* notice_period_duration; otherwise it fails with the cooldown message and
\* storage, the bond included, is unchanged.
C23_RollingWithdrawNeedsNotice ==
    (bond /= None /\ Get(bond).is_rolling) =>
        \A amount \in (-1) .. (MaxAmount + 1) :
            LET res == withdraw_bond(Storage, now, amount)
                b == Get(bond)
                noticed == /\ b.withdrawal_requested_at /= 0
                           /\ now >= b.withdrawal_requested_at + b.notice_period_duration
            IN  /\ res.err = "" => noticed
                /\ ~noticed =>
                      /\ res.err = "cooldown window not elapsed; request_withdrawal first"
                      /\ res.st = Storage

\* A rolling bond whose withdrawal was requested at time 1 (notice 1) has
\* just been withdrawn from at time 2.
C23_Witness ==
    /\ last.op = "withdraw" /\ last.err = ""
    /\ bond /= None /\ Get(bond).is_rolling
    /\ Get(bond).withdrawal_requested_at = 1
    /\ now = 2

C25_RequestRecordedOnce ==
    bond /= None =>
        LET res == request_withdrawal(Storage, now)
            b == Get(bond)
        IN  /\ res.err = "" =>
                  /\ b.is_rolling /\ b.withdrawal_requested_at = 0
                  /\ res.st = [Storage EXCEPT !.bond =
                                  Some([b EXCEPT !.withdrawal_requested_at = now])]
            /\ ~b.is_rolling =>
                  (res.err = "not a rolling bond" /\ res.st = Storage)
            /\ (b.is_rolling /\ b.withdrawal_requested_at /= 0) =>
                  (res.err = "withdrawal already requested" /\ res.st = Storage)

\* A second request at time 2 has just been refused; the request of time 1
\* stands.
C25_Witness ==
    /\ last.op = "request_withdrawal"
    /\ last.err = "withdrawal already requested"
    /\ Get(bond).withdrawal_requested_at = 1
    /\ now = 2

\* C26: at every reachable state with a bond, renew_if_rolling returns
\* normally; unless the bond is rolling and now >= bond_start +
\* bond_duration it leaves storage as it is, and otherwise it sets
\* bond_start = now and withdrawal_requested_at = 0 and leaves every other
\* field of the bond (bonded_amount, slashed_amount, bond_duration, notice
\* period, identity, active, is_rolling) and the rest of storage unchanged.
C26_RenewalFrame ==
    bond /= None =>
        LET res == renew_if_rolling(Storage, now)
            b == Get(bond)
        IN  /\ res.err = ""
            /\ IF b.is_rolling /\ now >= b.bond_start + b.bond_duration
               THEN /\ res.ret = 1
                    /\ res.st = [Storage EXCEPT !.bond =
                                    Some([b EXCEPT !.bond_start = now,
                                                   !.withdrawal_requested_at = 0])]
               ELSE res.ret = 0 /\ res.st = Storage

\* A slashed rolling bond has just been renewed at time 2.
C26_Witness ==
    /\ last.op = "renew_if_rolling" /\ last.err = "" /\ last.pid = 1
    /\ Get(bond).bond_start = 2
    /\ Get(bond).withdrawal_requested_at = 0
    /\ Get(bond).slashed_amount = 1

\* C27: a withdrawal request made on a rolling bond stays pending: in every
\* step other than a create_bond, a bond with a recorded request
\* (withdrawal_requested_at /= 0) keeps that request time, so that withdraw
\* passes the notice check at every time >= withdrawal_requested_at +
\* notice_period_duration; in particular renew_if_rolling does not cancel
\* the request.
C27_PendingRequestNotCancelled ==
    [][(/\ bond /= None /\ Get(bond).is_rolling
        /\ Get(bond).withdrawal_requested_at /= 0
        /\ last'.op /= "create_bond") =>
         /\ bond' /= None
         /\ Get(bond').withdrawal_requested_at = Get(bond).withdrawal_requested_at
         /\ now' >= Get(bond).withdrawal_requested_at + Get(bond).notice_period_duration =>
               can_withdraw_after_notice(now', Get(bond').withdrawal_requested_at,
                                         Get(bond').notice_period_duration)
      ]_vars

C29_SlashBondRejectsOrAccumulates ==
    (admin = Some(ADMIN) /\ bond /= None /\ Get(bond).active) =>
        \A amount \in (-1) .. (MaxAmount + 1) :
            LET b == Get(bond)
                r == slash_bond_enter(Storage, ADMIN, amount)
                after == Leave(r.st)
            IN  IF b.slashed_amount + amount > b.bonded_amount
                THEN r.err = "slash exceeds bond" /\ r.st = Storage
                ELSE /\ r.err = ""
                     /\ r.ret = b.slashed_amount + amount
                     /\ after.bond =
                          Some([b EXCEPT !.slashed_amount = b.slashed_amount + amount])
                     /\ [after EXCEPT !.bond = bond, !.lock = lock] = Storage

\* A slash_bond has just been refused on a bond whose earlier slashes were
\* accepted and add up to the bonded amount.
C29_Witness ==
    /\ last.op = "slash_bond"
    /\ last.err = "slash exceeds bond"
    /\ Get(bond).active
    /\ Get(bond).bonded_amount = MaxAmount
    /\ Get(bond).slashed_amount = MaxAmount

C31_OnlyAdminSlashes ==
    admin /= None =>
        \A a \in {ADMIN, ALICE, MALLORY, G1} \ {Get(admin)} :
            \A amount \in (-1) .. (MaxAmount + 1) :
                LET r == slash_bond_enter(Storage, a, amount)
                    d == slash(Storage, a, amount)
                IN  /\ r.err = "not admin" /\ r.st = Storage
                    /\ d.err = "not admin" /\ d.st = Storage

\* The bonded identity has just been refused a slash of its own active
\* bond, which is still unslashed.
C31_Witness ==
    /\ last.op = "slash_bond"
    /\ last.err = "not admin"
    /\ bond /= None
    /\ Get(bond).identity = ALICE
    /\ Get(bond).active
    /\ Get(bond).bonded_amount = MaxAmount
    /\ Get(bond).slashed_amount = 0

\* C32: at every reachable state with a bond, withdraw_bond_full succeeds
\* exactly when the caller is the bond's identity and the bond is active;
\* it then returns bonded_amount - slashed_amount and stores the bond with
\* bonded_amount 0 and active false and nothing else changed; on an
\* inactive bond withdraw_bond_full by the identity and slash_bond by the
\* admin fail with 'bond not active'; and an inactive bond stays inactive
\* through every step that is not a create_bond.
C32_FullWithdrawalOnce ==
    /\ [](bond /= None =>
            LET b == Get(bond) IN
            /\ \A i \in {ALICE, MALLORY, ADMIN} :
                 LET r == withdraw_bond_full_enter(Storage, i)
                 IN  /\ r.err = "" <=> (i = b.identity /\ b.active)
                     /\ r.err /= "" => r.st = Storage
                     /\ r.err = "" =>
                          /\ r.ret = b.bonded_amount - b.slashed_amount
                          /\ Leave(r.st) =
                               [Storage EXCEPT
                                  !.lock = Some(FALSE),
                                  !.bond = Some([b EXCEPT !.bonded_amount = 0,
                                                          !.active = FALSE])]
            /\ ~b.active =>
                 /\ withdraw_bond_full_enter(Storage, b.identity).err = "bond not active"
                 /\ admin /= None =>
                      \A amount \in (-1) .. (MaxAmount + 1) :
                          slash_bond_enter(Storage, Get(admin), amount).err
                              = "bond not active")
    /\ [][(bond /= None /\ ~Get(bond).active)
            => \/ bond' /= None /\ ~Get(bond').active
               \/ last'.op = "create_bond" /\ last'.err = ""]_vars

\* The identity has been paid in full and its second full withdrawal has
\* just been refused.
C32_Witness ==
    /\ last.op = "withdraw_bond_full"
    /\ last.err = "bond not active"
    /\ bond /= None
    /\ Get(bond).identity = ALICE
    /\ ~Get(bond).active
    /\ Get(bond).bonded_amount = 0

\* C33: every propose_slash step either fails and changes nothing, or was
\* made by the admin or a current governor with a positive amount, takes
\* the next id, which no proposal has had before (all smaller ids are in
\* use, this one is not), stores the proposal there with status Open and
\* advances the counter by one; a proposer who is neither admin nor
\* governor, and an amount that is not positive, are always refused.
C33_ProposalIdsInCreationOrder ==
    /\ [](\A p \in {ADMIN, G1, MALLORY}, amount \in {0, 1} :
            propose_slash(Storage, now, p, amount).err = ""
                => /\ amount > 0
                   /\ p = Get(admin) \/ is_governor(get_governors(Storage), p))
    /\ [][(last'.op = "propose_slash" /\ now' = now) =>
            LET id == UnwrapOr(next_proposal_id, 0) IN
            IF last'.err = ""
            THEN /\ ~Has(proposals, id)
                 /\ \A k \in 0 .. (id - 1) : Has(proposals, k)
                 /\ Has(proposals', id)
                 /\ proposals'[id].id = id
                 /\ proposals'[id].status = Open
                 /\ next_proposal_id' = Some(id + 1)
            ELSE UNCHANGED storageVars]_vars

\* C34: at every reachable state that holds a bond, whatever its state
\* (slashed, inactive, rolling with a pending request), create_bond by the
\* same or another identity succeeds and leaves exactly one bond, made of
\* the new identity, the amount net of the creation fee, the current time,
\* the new duration and rolling settings, slashed_amount 0, active true and
\* withdrawal_requested_at 0.
C34_CreateBondReplaces ==
    (bond /= None /\ token /= None) =>
        \A identity \in {ALICE, MALLORY}, amount \in 0 .. MaxAmount,
           duration \in {1, 2}, is_rolling \in BOOLEAN :
            LET r == create_bond(Storage, now, identity, amount, duration, is_rolling, 1)
            IN  /\ r.err = ""
                /\ r.st.bond =
                     Some([ identity |-> identity,
                            bonded_amount |-> calculate_fee(Storage, amount)[2],
                            bond_start |-> now,
                            bond_duration |-> duration,
                            slashed_amount |-> 0,
                            active |-> TRUE,
                            is_rolling |-> is_rolling,
                            withdrawal_requested_at |-> 0,
                            notice_period_duration |-> 1 ])

\* A create_bond has just succeeded while the contract already held the
\* tokens of an earlier bond: the stored bond is the new one.
C34_Witness ==
    /\ last.op = "create_bond"
    /\ last.err = ""
    /\ bond /= None
    /\ token_balance > Get(bond).bonded_amount
    /\ Get(bond).bond_start = now
    /\ now > 0
    /\ Get(bond).slashed_amount = 0
    /\ Get(bond).active

\* C35: at every reachable state whose bond holds a non-negative amount,
\* top_up of a non-negative amount fails and changes nothing when
\* bonded_amount + amount exceeds the i128 range; otherwise it succeeds,
\* the new bonded_amount exceeds the old one by exactly amount, no other
\* field of the bond changes, and it publishes one tier_changed event
\* carrying the new tier when the tier of the new amount (Bronze below
\* 1e9, Silver below 5e9, Gold below 2e10, Platinum from there) differs
\* from the tier of the old one, and no event when it does not.
\* Exactness is checked limb by limb from the top: the running excess of
\* new - old - amount must end at 0, and once it leaves -2 .. 2 it cannot
\* return there.
C35_TopUpExactAndTierEvent ==
    bond /= None =>
        \A amount \in TopUpAmounts :
            LET b == Get(bond)
                r == top_up_checked(Storage, amount)
                room == [i \in 1 .. 8 |-> I128_MAX[i] - b.bonded_amount[i]]
                fits == ~LimbLess(room, amount)
                TierOf(x) == IF LimbLess(x, TIER_BRONZE_MAX) THEN 1
                             ELSE IF LimbLess(x, TIER_SILVER_MAX) THEN 2
                             ELSE IF LimbLess(x, TIER_GOLD_MAX) THEN 3
                             ELSE 4
                TierName(x) == << "Bronze", "Silver", "Gold", "Platinum" >>[TierOf(x)]
            IN  IF ~fits
                THEN r.err /= "" /\ r.st = Storage
                ELSE LET nb == Get(r.st.bond) IN
                     /\ r.err = ""
                     /\ nb = [b EXCEPT !.bonded_amount = nb.bonded_amount]
                     /\ \A i \in 1 .. 8 : nb.bonded_amount[i] \in 0 .. (LimbBase - 1)
                     /\ LET d == [i \in 1 .. 8 |->
                                     nb.bonded_amount[i] - b.bonded_amount[i] - amount[i]]
                             RECURSIVE Excess(_, _)
                             Excess(i, acc) ==
                                 IF i = 0 \/ acc > 2 \/ acc < -2 THEN acc
                                 ELSE Excess(i - 1, acc * LimbBase + d[i])
                         IN  Excess(8, 0) = 0
                     /\ r.ret = IF TierOf(b.bonded_amount) /= TierOf(nb.bonded_amount)
                                THEN << << "tier_changed", b.identity,
                                           TierName(nb.bonded_amount) >> >>
                                ELSE << >>

\* A top-up has just taken a bond from the last Silver amount to the first
\* Gold amount and published its event.
C35_Witness ==
    /\ last.op = "top_up"
    /\ last.err = ""
    /\ last.pid = 1
    /\ bond /= None
    /\ Get(bond).bonded_amount = TIER_SILVER_MAX

\* C36: at every reachable state with a stored admin, collect_fees by
\* anyone else fails with 'not admin' and changes nothing; collect_fees by
\* the admin returns the whole pool and leaves it at 0, and a collect_fees
\* right after it returns 0; a deposit_fees adds its amount to the pool and
\* a create_bond adds its creation fee; and no step other than these three
\* changes the pool, a successful collect_fees step leaving it at 0.
C36_FeePoolCollectedOnce ==
    /\ [](admin /= None =>
            LET pool == UnwrapOr(fees, 0)
                c1 == collect_fees(Storage, Get(admin))
                c2 == collect_fees(c1.st, Get(admin))
            IN  /\ \A a \in {ALICE, MALLORY, TREASURY} \ {Get(admin)} :
                     /\ collect_fees(Storage, a).err = "not admin"
                     /\ collect_fees(Storage, a).st = Storage
                /\ c1.err = "" /\ c1.ret = pool
                /\ c1.st = [Storage EXCEPT !.fees = Some(0), !.lock = Some(FALSE)]
                /\ c2.err = "" /\ c2.ret = 0 /\ c2.st = c1.st
                /\ \A amount \in {-1, 0, 1} :
                     deposit_fees(Storage, amount).st.fees = Some(pool + amount)
                /\ (token /= None) =>
                     \A amount \in 0 .. MaxAmount :
                         UnwrapOr(create_bond(Storage, now, ALICE, amount, 1, FALSE, 1).st.fees, 0)
                             = pool + TruncDiv(amount * FeeBpsOf(Storage), BPS_DENOMINATOR))
    /\ [][((fees' /= fees) =>
                (last'.op \in {"collect_fees", "deposit_fees", "create_bond"}))
           /\ ((last'.op = "collect_fees" /\ last'.err = "" /\ last' /= last) =>
                (fees' = Some(0) /\ last'.pid = UnwrapOr(fees, 0)))]_vars

\* The admin has just collected a pool of MaxAmount on a contract whose
\* bond paid a creation fee, and the pool is empty.
C36_Witness ==
    /\ last.op = "collect_fees"
    /\ last.err = ""
    /\ last.pid = MaxAmount
    /\ fees = Some(0)
    /\ bond /= None
    /\ Get(bond).bonded_amount = MaxAmount - 1

\* C37: once an admin is stored, every initialize call is rejected and
\* changes nothing, and no step changes the stored admin.
C37_InitializedOnce ==
    /\ [](admin /= None =>
            \A a \in {ADMIN, MALLORY} :
                /\ initialize(Storage, a).err /= ""
                /\ initialize(Storage, a).st = Storage)
    /\ [][admin /= None => admin' = admin]_vars

\* C38: at every reachable state, every Open proposal that is approved
\* (quorum and majority) is executed when its proposer, admin or governor,
\* calls execute_slash_with_governance: the call succeeds, the proposal is
\* Executed and the bond's slashed_amount has grown by the proposal's
\* amount.
C38_ApprovedProposalExecutes ==
    \A pid \in ProposalIds :
        (Has(proposals, pid) /\ proposals[pid].status = Open
            /\ is_approved(Storage, pid)) =>
            LET r == execute_slash_with_governance(Storage, proposals[pid].proposed_by, pid)
            IN  /\ r.err = ""
                /\ r.st.proposals[pid].status = Executed
                /\ Get(r.st.bond).slashed_amount
                     = Get(bond).slashed_amount + proposals[pid].amount

\* C39: after every step in which propose_slash created a proposal, that
\* proposal has no counted vote and is not approved.
C39_NewProposalHasNoVotes ==
    [][(last'.op = "propose_slash" /\ last'.err = ""
            /\ next_proposal_id' /= next_proposal_id) =>
        LET id == UnwrapOr(next_proposal_id, 0)
        IN  /\ count_votes(Storage', id).voted = 0
            /\ ~is_approved(Storage', id)]_vars

\* C40: in every step that is not a successful create_bond, the stored
\* slashed_amount does not decrease.
C40_SlashedNeverDecreases ==
    [][(bond /= None /\ ~(last'.op = "create_bond" /\ last'.err = "")) =>
        (bond' /= None
            /\ Get(bond').slashed_amount >= Get(bond).slashed_amount)]_vars


====
